---- MODULE Spec2Model ----
(***************************************************************************)
(* The Orchestrate flow execution engine of app/orchestrate/flow_runner.py *)
(* (FlowRunner) together with the skill invoker it calls                   *)
(* (app/orchestrate/skills.py), as a state machine.                        *)
(*                                                                         *)
(* Python values are tagged records:                                       *)
(*   None            [k |-> "none"]                                        *)
(*   bool            [k |-> "bool",  b |-> TRUE]                           *)
(*   int             [k |-> "int",   n |-> 100]                            *)
(*   float           [k |-> "float", t |-> 3]       (tenths: 3 is 0.3)     *)
(*   str             [k |-> "str",   s |-> <<"Hello ", "{{", "name", "}}">>]*)
(*                   a string is the sequence of its tokens, "" is <<>>    *)
(*   dict            [k |-> "map",   m |-> << [key |-> .., val |-> ..] >>] *)
(*                   the items in insertion order, as Python keeps them    *)
(* A step or a case of a flow definition is a TLA+ record holding only the *)
(* fields the JSON object has; dict.get(field, default) is StepGet.        *)
(*                                                                         *)
(* Specifications:                                                         *)
(*   Spec            one execute_flow call on any registered flow          *)
(*   SpecE2E         the flow of test_execute_flow_mock on any invoice     *)
(*   SpecScript      flows of script steps                                 *)
(*   SpecHelpers     _evaluate_condition, _resolve_variables and           *)
(*                   _script_validate_invoice called on their own          *)
(*   SpecConcurrent  two execute_flow calls on two threads                 *)
(***************************************************************************)
EXTENDS Integers, Sequences, FiniteSets, TLC

VARIABLES
    flows,        \* FlowRunner.flows: flow name -> flow definition
    initialized,  \* OrchestrateSkills._initialized
    pc,           \* where the caller of execute_flow is
    flow_name,    \* execute_flow's argument flow_name
    input_data,   \* execute_flow's argument input_data (the caller's object)
    context,      \* execute_flow's local context (an ordered dict)
    results,      \* execute_flow's local results (a list of records)
    stack,        \* the active _execute_steps calls, innermost last
    exc,          \* the message of the exception in flight, if any
    outcome,      \* what execute_flow returned
    trace,        \* history: the place and kind of every step dispatched
    calls,        \* history: the skill invocations and handler runs made
    args,         \* the arguments of a helper method called on its own
    ret,          \* what that helper method returned
    parked        \* the locals of a second execute_flow call that is not running

\* what the other specifications of this module work on
elsewhere == <<args, ret, parked>>

vars == <<flows, initialized, pc, flow_name, input_data, context, results,
          stack, exc, outcome, trace, calls, elsewhere>>

(***************************************************************************)
(* Python values                                                           *)
(***************************************************************************)
PyNone == [k |-> "none"]
PyBool(b) == [k |-> "bool", b |-> b]
PyInt(n) == [k |-> "int", n |-> n]
PyFloat(t) == [k |-> "float", t |-> t]
PyStr(s) == [k |-> "str", s |-> s]
\* an object that is no JSON value (a bound method, say)
PyObject == [k |-> "object"]
PyMap(m) == [k |-> "map", m |-> m]

\* dict.get("id") of a step that has no id: the None that then serves as the
\* record's step and as the context key
NoneKey == "<None>"

IsMap(v) == v.k = "map"

\* bool(v): what `if v` and `a or b` test
Truthy(v) ==
    CASE v.k = "none" -> FALSE
      [] v.k = "bool" -> v.b
      [] v.k = "int" -> v.n # 0
      [] v.k = "float" -> v.t # 0
      [] v.k = "str" -> v.s # <<>>
      [] v.k = "map" -> v.m # <<>>
      [] v.k = "object" -> TRUE

(***************************************************************************)
(* Ordered dicts: sequences of [key, val] items with distinct keys         *)
(***************************************************************************)
Keys(d) == {d[i].key : i \in DOMAIN d}

Has(d, key) == key \in Keys(d)

\* d[key] for a key that is present
Lookup(d, key) == d[CHOOSE i \in DOMAIN d : d[i].key = key].val

\* d.get(key, default)
DictGet(d, key, default) == IF Has(d, key) THEN Lookup(d, key) ELSE default

\* d[key] = val: a present key keeps its place, a new key goes last
Put(d, key, val) ==
    IF Has(d, key)
    THEN [i \in DOMAIN d |-> IF d[i].key = key THEN [key |-> key, val |-> val] ELSE d[i]]
    ELSE Append(d, [key |-> key, val |-> val])

\* step.get(field, default) on a JSON object of the flow definition
StepGet(step, field, default) ==
    IF field \in DOMAIN step THEN step[field] ELSE default

(***************************************************************************)
(* Text                                                                    *)
(***************************************************************************)
\* `pat in s`
Contains(s, pat) ==
    \E i \in 1..(Len(s) - Len(pat) + 1) : SubSeq(s, i, i + Len(pat) - 1) = pat

\* s.replace(pat, rep): every occurrence, left to right, never rescanning
\* the text put in
RECURSIVE Replace(_, _, _)
Replace(s, pat, rep) ==
    IF Len(s) < Len(pat) \/ pat = <<>> THEN s
    ELSE IF SubSeq(s, 1, Len(pat)) = pat
         THEN rep \o Replace(SubSeq(s, Len(pat) + 1, Len(s)), pat, rep)
         ELSE <<Head(s)>> \o Replace(Tail(s), pat, rep)

\* str(x) of a float given in tenths
FloatText(t) ==
    CASE t = 0 -> "0.0" [] t = 1 -> "0.1" [] t = 2 -> "0.2" [] t = 3 -> "0.3"
      [] t = 4 -> "0.4" [] t = 5 -> "0.5" [] t = 6 -> "0.6" [] t = 7 -> "0.7"
      [] t = 8 -> "0.8" [] t = 9 -> "0.9" [] t = 10 -> "1.0"
      [] OTHER -> "<float>"

\* str(v), as tokens
StrOf(v) ==
    CASE v.k = "none" -> <<"None">>
      [] v.k = "bool" -> IF v.b THEN <<"True">> ELSE <<"False">>
      [] v.k = "int" -> <<ToString(v.n)>>
      [] v.k = "float" -> <<FloatText(v.t)>>
      [] v.k = "str" -> v.s
      [] v.k = "map" -> IF v.m = <<>> THEN <<"{}">> ELSE <<"{...}">>

(***************************************************************************)
(* FlowRunner._resolve_variables                                           *)
(***************************************************************************)
\* (mutant) None passes for a scalar
IsScalarOrNone(v) == v.k \in {"str", "int", "float", "bool", "none"}

\* isinstance(ctx_val, (str, int, float, bool))
IsScalar(v) == v.k \in {"str", "int", "float", "bool"}

\* the inner loop over ctx_val.items(): {{ctx_key.sub_key}} -> str(sub_val)
RECURSIVE ResolveSub(_, _, _)
ResolveSub(value, ctx_key, items) ==
    IF items = <<>> THEN value
    ELSE ResolveSub(
            Replace(value, <<"{{", ctx_key, ".", Head(items).key, "}}">>, StrOf(Head(items).val)),
            ctx_key, Tail(items))

\* the loop over context.items(): {{ctx_key}} -> str(ctx_val)
RECURSIVE ResolveValue(_, _)
ResolveValue(value, items) ==
    IF items = <<>> THEN value
    ELSE LET ctx_key == Head(items).key
             ctx_val == Head(items).val
             v1 == IF IsScalar(ctx_val)
                   THEN Replace(value, <<"{{", ctx_key, "}}">>, StrOf(ctx_val))
                   ELSE value
             v2 == IF IsMap(ctx_val) THEN ResolveSub(v1, ctx_key, ctx_val.m) ELSE v1
         IN ResolveValue(v2, Tail(items))

\* (mutant) what is left of a placeholder after the loops loses its braces
resolve_variables_strip(template, ctx) ==
    [i \in DOMAIN template |->
        LET value == template[i].val IN
        [key |-> template[i].key,
         val |-> IF value.k = "str" /\ Contains(value.s, <<"{{">>) /\ Contains(value.s, <<"}}">>)
                 THEN PyStr(Replace(Replace(ResolveValue(value.s, ctx), <<"{{">>, <<>>),
                                    <<"}}">>, <<>>))
                 ELSE value]]

\* the template is a dict here; a template that is no dict raises (see SkillStep)
resolve_variables(template, ctx) ==
    [i \in DOMAIN template |->
        LET value == template[i].val IN
        [key |-> template[i].key,
         val |-> IF value.k = "str" /\ Contains(value.s, <<"{{">>) /\ Contains(value.s, <<"}}">>)
                 THEN PyStr(ResolveValue(value.s, ctx))
                 ELSE value]]

(***************************************************************************)
(* FlowRunner._evaluate_condition                                          *)
(*                                                                         *)
(* eval() is modelled for the expressions the rewriting can produce from   *)
(* the conditions of Conds: comparisons `atom` or `atom op atom` joined by *)
(* and / or, evaluated left to right with Python's short circuit.  The     *)
(* result is "T" or "F" (the truth of the value), "E" (an Exception) or    *)
(* "X" (SystemExit).                                                       *)
(***************************************************************************)
\* get_val(path): the nested helper; parts is path.split('.')
RECURSIVE get_val(_, _)
get_val(parts, val) ==
    IF parts = <<>> THEN val
    ELSE IF IsMap(val)
         THEN get_val(Tail(parts), DictGet(val.m, Head(parts), PyNone))
         ELSE PyNone

\* a or b
PyOr(a, b) == IF Truthy(a) THEN a ELSE b

\* the default of `... or 0.5`, in tenths
DefaultScore == 5

CmpOps == {"<", ">", "==", "!=", "<=", ">="}

\* the float literals FloatText can print
FloatRange == 0..10
\* the int literals the model's conditions and contexts can print
IntRange == {0, 1, 100, 123}

IsNumber(v) == v.k \in {"bool", "int", "float"}

\* a number in tenths (True is 1, False is 0)
Tenths(v) ==
    CASE v.k = "bool" -> IF v.b THEN 10 ELSE 0
      [] v.k = "int" -> 10 * v.n
      [] v.k = "float" -> v.t

\* the value of one operand; [ok |-> FALSE] is a NameError
Atom(tok) ==
    CASE tok = "True" -> [ok |-> TRUE, v |-> PyBool(TRUE)]
      [] tok = "False" -> [ok |-> TRUE, v |-> PyBool(FALSE)]
      [] tok = "None" -> [ok |-> TRUE, v |-> PyNone]
      [] tok = "{}" -> [ok |-> TRUE, v |-> PyMap(<<>>)]
      [] tok = "{...}" -> [ok |-> TRUE, v |-> PyMap(<<[key |-> "...", val |-> PyNone]>>)]
      \* eval sees the locals of _evaluate_condition: its argument context
      [] tok = "context.get" -> [ok |-> TRUE, v |-> PyObject]
      [] \E t \in FloatRange : FloatText(t) = tok ->
            [ok |-> TRUE, v |-> PyFloat(CHOOSE t \in FloatRange : FloatText(t) = tok)]
      [] \E n \in IntRange : ToString(n) = tok ->
            [ok |-> TRUE, v |-> PyInt(CHOOSE n \in IntRange : ToString(n) = tok)]
      [] OTHER -> [ok |-> FALSE]

\* a op b: "E" is the TypeError of ordering values that are not numbers
Compare(a, op, b) ==
    LET num == IsNumber(a) /\ IsNumber(b)
        eq == IF num THEN Tenths(a) = Tenths(b) ELSE a = b
        tf(x) == IF x THEN "T" ELSE "F"
    IN CASE op = "==" -> tf(eq)
         [] op = "!=" -> tf(~eq)
         [] ~num -> "E"
         [] op = "<" -> tf(Tenths(a) < Tenths(b))
         [] op = ">" -> tf(Tenths(a) > Tenths(b))
         [] op = "<=" -> tf(Tenths(a) <= Tenths(b))
         [] op = ">=" -> tf(Tenths(a) >= Tenths(b))

\* the pieces of toks between the occurrences of sep
RECURSIVE Split(_, _, _)
Split(toks, sep, cur) ==
    IF toks = <<>> THEN <<cur>>
    ELSE IF Head(toks) = sep
         THEN <<cur>> \o Split(Tail(toks), sep, <<>>)
         ELSE Split(Tail(toks), sep, Append(cur, Head(toks)))

Keywords == CmpOps \cup {"and", "or", "&&", "||"}

\* the parser accepts the comparison
CmpSyntaxOk(c) ==
    \/ Len(c) = 1 /\ c[1] \notin Keywords
    \/ Len(c) = 3 /\ c[1] \notin Keywords /\ c[2] \in CmpOps /\ c[3] \notin Keywords

\* a call of the builtin exit: SystemExit, which is no Exception
ExitCall == "exit()"

\* "T", "F", "E" for an Exception, "X" for SystemExit; the left operand is
\* evaluated first
EvalCmp(c) ==
    IF c[1] = ExitCall THEN "X"
    ELSE IF Len(c) = 1
    THEN IF Atom(c[1]).ok THEN (IF Truthy(Atom(c[1]).v) THEN "T" ELSE "F") ELSE "E"
    ELSE IF ~Atom(c[1]).ok THEN "E"
    ELSE IF c[3] = ExitCall THEN "X"
    ELSE IF ~Atom(c[3]).ok THEN "E"
         ELSE Compare(Atom(c[1]).v, c[2], Atom(c[3]).v)

\* c1 and c2 and ...: stops at the first false operand
RECURSIVE EvalAnd(_)
EvalAnd(cs) ==
    IF Len(cs) = 1 THEN EvalCmp(cs[1])
    ELSE IF EvalCmp(Head(cs)) = "T" THEN EvalAnd(Tail(cs)) ELSE EvalCmp(Head(cs))

\* a1 or a2 or ...: stops at the first true operand
RECURSIVE EvalOr(_)
EvalOr(as) ==
    IF Len(as) = 1 THEN EvalAnd(as[1])
    ELSE IF EvalAnd(Head(as)) = "F" THEN EvalOr(Tail(as)) ELSE EvalAnd(Head(as))

\* eval(eval_str)
PyEval(toks) ==
    LET ors == Split(toks, "or", <<>>)
        ands == [i \in DOMAIN ors |-> Split(ors[i], "and", <<>>)]
    IN IF \A i \in DOMAIN ands : \A j \in DOMAIN ands[i] : CmpSyntaxOk(ands[i][j])
       THEN EvalOr(ands)
       ELSE "E"

\* the local `score` of line 194
score(ctx) ==
    PyOr(PyOr(get_val(<<"risk", "score">>, PyMap(ctx)),
              get_val(<<"risk", "result", "score">>, PyMap(ctx))),
         PyFloat(DefaultScore))

\* the rewriting of the condition text, lines 178-203
RewriteCondition(cond, ctx) ==
    LET c == PyMap(ctx)
        s1 == IF Contains(cond, <<"risk.score">>)
              THEN Replace(cond, <<"risk.score">>, StrOf(score(ctx)))
              ELSE cond
        val_ok == get_val(<<"validation", "ok">>, c)
        s2 == IF Contains(s1, <<"validation.ok">>)
              THEN Replace(Replace(Replace(s1, <<"validation.ok">>, StrOf(val_ok)),
                                   <<"true">>, <<"True">>),
                           <<"false">>, <<"False">>)
              ELSE s1
    IN Replace(Replace(s2, <<"&&">>, <<"and">>), <<"||">>, <<"or">>)

\* condition is a Python value: a str, or the None of a case with no condition
\* (`"risk.score" in None` is a TypeError, caught like every Exception)
evaluate_condition(condition, ctx) ==
    IF condition.k # "str" THEN FALSE
    ELSE PyEval(RewriteCondition(condition.s, ctx)) = "T"

\* the eval of line 206 raises what `except Exception` does not catch
evaluation_exits(condition, ctx) ==
    condition.k = "str" /\ PyEval(RewriteCondition(condition.s, ctx)) = "X"

(***************************************************************************)
(* Script handlers.  A handler returns [ok |-> TRUE, v |-> its result] or  *)
(* [ok |-> FALSE, err |-> str(e)] when it raises.                          *)
(***************************************************************************)
Item(key, val) == [key |-> key, val |-> val]

NoGetError(v) ==
    CASE v.k = "none" -> "'NoneType' object has no attribute 'get'"
      [] v.k = "str" -> "'str' object has no attribute 'get'"
      [] OTHER -> "object has no attribute 'get'"

script_validate_invoice(ctx) ==
    LET invoice == DictGet(ctx, "invoice", PyMap(<<>>)) IN
    IF ~IsMap(invoice) THEN [ok |-> FALSE, err |-> NoGetError(invoice)]
    ELSE LET total == DictGet(invoice.m, "total", PyInt(0))
             vendor == DictGet(invoice.m, "vendor", PyNone)
         IN IF ~IsNumber(total)
            THEN [ok |-> FALSE, err |-> "'>' not supported between instances"]
            ELSE IF Tenths(total) > 0 /\ Truthy(vendor)
                 THEN [ok |-> TRUE,
                       v |-> PyMap(<<Item("ok", PyBool(TRUE)),
                                     Item("message", PyStr(<<"Valid">>))>>)]
                 ELSE [ok |-> TRUE,
                       v |-> PyMap(<<Item("ok", PyBool(FALSE)),
                                     Item("message", PyStr(<<"Missing required fields">>))>>)]

script_auto_approve(ctx) ==
    LET invoice == DictGet(ctx, "invoice", PyMap(<<>>)) IN
    IF ~IsMap(invoice) THEN [ok |-> FALSE, err |-> NoGetError(invoice)]
    ELSE [ok |-> TRUE, v |-> PyMap(<<Item("approved", PyBool(TRUE))>>)]

\* FlowRunner.script_handlers, in registration order
script_handlers == <<"validate_invoice", "auto_approve">>

RunHandler(name, ctx) ==
    IF name = "validate_invoice" THEN script_validate_invoice(ctx)
    ELSE script_auto_approve(ctx)

\* (mutant) no break in the loop: the last registered name found wins
FindHandlerLast(script_content) ==
    LET hits == {i \in DOMAIN script_handlers :
                    Contains(script_content, <<script_handlers[i]>>)}
    IN IF hits = {} THEN ""
       ELSE script_handlers[CHOOSE i \in hits : \A j \in hits : i >= j]

\* the loop of lines 118-122: the first registered name found in the script
\* text, or "" when there is none (handler stays None)
FindHandler(script_content) ==
    LET hits == {i \in DOMAIN script_handlers :
                    Contains(script_content, <<script_handlers[i]>>)}
    IN IF hits = {} THEN ""
       ELSE script_handlers[CHOOSE i \in hits : \A j \in hits : i <= j]

(***************************************************************************)
(* OrchestrateSkills.invoke_skill.  The remote answer is the environment's *)
(* choice: a 200 with a JSON body, another status, or a transport error.   *)
(***************************************************************************)
HttpAnswers ==
    {[status_code |-> 200, json |-> PyMap(<<Item("score", PyFloat(1))>>)],
     [status_code |-> 200, json |-> PyMap(<<>>)],
     [status_code |-> 500],
     [error |-> "connection refused"]}

\* (mutant) no mock: a client that is not connected answers None
invoke_skill_unmocked(connected, skill_name, skill_input, answer) ==
    IF ~connected THEN PyNone
    ELSE IF "error" \in DOMAIN answer THEN PyNone
         ELSE IF answer.status_code = 200 THEN answer.json ELSE PyNone

\* the body of invoke_skill, lines 63-91
invoke_skill(connected, skill_name, skill_input, answer) ==
    IF ~connected
    THEN PyMap(<<Item("skill", skill_name),
                 Item("status", PyStr(<<"mock_success">>)),
                 Item("result", skill_input)>>)
    ELSE IF "error" \in DOMAIN answer THEN PyNone
         ELSE IF answer.status_code = 200 THEN answer.json ELSE PyNone

(***************************************************************************)
(* Flow definitions and inputs the runs are drawn from                     *)
(***************************************************************************)
\* the longest top-level step sequence of a registered flow
MaxSteps == 2

Placeholder(path) == <<"{{">> \o path \o <<"}}">>

SkillRisk ==
    [id |-> "s1", type |-> "skill", skill |-> PyStr(<<"risk_score">>),
     input |-> PyMap(<<Item("vendor", PyStr(<<"v: ">> \o Placeholder(<<"invoice", ".", "vendor">>))),
                       Item("limit", PyInt(100))>>),
     output |-> "risk"]
SkillNotify == [id |-> "s2", type |-> "skill", skill |-> PyStr(<<"notify">>)]
\* a skill step whose input is no JSON object: _resolve_variables raises
SkillBadInput ==
    [id |-> "s4", type |-> "skill", skill |-> PyStr(<<"notify">>),
     input |-> PyStr(Placeholder(<<"invoice">>))]
ScriptValidate ==
    [id |-> "step1", type |-> "script", script |-> PyStr(<<"validate_invoice">>),
     output |-> "validation"]
\* as in test_execute_flow_mock: neither id nor output
ScriptApprove == [type |-> "script", script |-> PyStr(<<"run ", "auto_approve">>)]
ScriptNoHandler == [id |-> "s3", type |-> "script", script |-> PyStr(<<"send_email">>)]
WaitApproval == [id |-> "w1", type |-> "wait_for_event", event |-> "approval"]
OtherType == [id |-> "u1", type |-> "log"]

LeafSteps ==
    {SkillRisk, SkillNotify, SkillBadInput, ScriptValidate, ScriptApprove,
     ScriptNoHandler, WaitApproval, OtherType}

CElse == PyStr(<<"else">>)
CValid == PyStr(<<"validation.ok", "==", "true">>)
CRisk == PyStr(<<"risk.score", "<", "0.3">>)
CLowRisk == PyStr(<<"risk.score", "<", "0.3", "&&", "validation.ok", "==", "true">>)
\* a dotted path the evaluator does not substitute
COther == PyStr(<<"invoice.total", ">", "0">>)

Conds == {CElse, CValid, CRisk, CLowRisk, COther}

Case(cond, actions) == [condition |-> cond, actions |-> actions]
Switch(id, cases) == [id |-> id, type |-> "switch", cases |-> cases]

SwitchSteps ==
    {Switch("sw1", <<Case(CValid, <<ScriptApprove>>)>>),
     Switch("sw2", <<Case(CLowRisk, <<ScriptApprove>>),
                     Case(CElse, <<WaitApproval, SkillNotify>>)>>),
     Switch("sw3", <<Case(CElse, <<ScriptNoHandler, SkillNotify>>),
                     Case(CValid, <<ScriptApprove>>)>>),
     Switch("sw4", <<Case(CValid, <<SkillNotify>>),
                     Case(CRisk, <<ScriptApprove>>)>>),
     Switch("sw5", <<Case(COther, <<ScriptApprove>>),
                     [actions |-> <<WaitApproval>>]>>),
     Switch("sw6", <<Case(CElse,
                          <<Switch("sw7", <<Case(CValid, <<WaitApproval>>),
                                            Case(CElse, <<ScriptApprove>>)>>),
                            ScriptNoHandler>>)>>),
     Switch("sw8", <<[condition |-> CElse]>>),
     [id |-> "sw9", type |-> "switch"]}

TopSteps == LeafSteps \cup SwitchSteps

StepSeqs == UNION {[1..n -> TopSteps] : n \in 0..MaxSteps}

FlowDefs ==
    {[name |-> "TestFlow", steps |-> s] : s \in StepSeqs}
        \cup {[name |-> "TestFlow"], [steps |-> <<ScriptValidate>>]}

\* flow.get("name", "InvoiceProcessingFlow"), the key the flow is stored under
RegisteredName(f) == StepGet(f, "name", "InvoiceProcessingFlow")

\* _load_flows registers at most one flow, under its name; with no file the
\* registry stays empty
Registries == {<<>>} \cup {[n \in {RegisteredName(f)} |-> f] : f \in FlowDefs}

FlowNames == {"TestFlow", "testflow", "InvoiceProcessingFlow"}

Invoice(total, vendor) ==
    PyMap(<<Item("total", total), Item("vendor", PyStr(vendor))>>)

\* what callers pass as input_data: request.json, whatever JSON it is
Inputs ==
    {PyMap(<<>>),
     PyMap(<<Item("invoice", Invoice(PyInt(100), <<"Acme">>))>>),
     PyMap(<<Item("invoice", PyMap(<<Item("total", PyInt(0))>>))>>),
     PyMap(<<Item("invoice", PyStr(<<"INV-1">>))>>),
     PyMap(<<Item("risk", PyMap(<<Item("score", PyFloat(1))>>)),
             Item("validation", PyMap(<<Item("ok", PyBool(TRUE))>>))>>),
     PyMap(<<Item("validation", PyMap(<<Item("ok", PyBool(TRUE))>>)),
             Item("risk", PyMap(<<Item("score", PyFloat(8))>>))>>),
     PyStr(<<"not a map">>)}

(***************************************************************************)
(* The call stack of _execute_steps                                        *)
(*                                                                         *)
(* A frame is one active `for step in steps` loop: its list, the index of  *)
(* the step being dispatched, and the place of the list in the flow (<<>>  *)
(* for the top level, the switch's place and the case number below).       *)
(***************************************************************************)
Frame(steps, path) == [steps |-> steps, i |-> 1, path |-> path]

Top == stack[Len(stack)]
Cur == Top.steps[Top.i]
CurPath == Append(Top.path, Top.i)
CurType == StepGet(Cur, "type", "")
CurId == StepGet(Cur, "id", NoneKey)

Pop(st) == SubSeq(st, 1, Len(st) - 1)

\* a loop whose list is exhausted returns to its caller
RECURSIVE Unwind(_)
Unwind(st) ==
    IF st = <<>> THEN st
    ELSE IF st[Len(st)].i > Len(st[Len(st)].steps) THEN Unwind(Pop(st))
         ELSE st

\* the loop goes on to its next step
Advance(st) == [st EXCEPT ![Len(st)].i = @ + 1]

\* (mutant) a stray break: the loop ends after any step
AfterStepBreaks(st) == Unwind(Pop(st))

\* the step is done and did not break: lines 72-85
AfterStep(st) == Unwind(Advance(st))

\* (mutant) the break is missing: the loop goes on to the step after the wait
AfterBreakGoesOn(st) == Unwind(Advance(st))

\* `break`, line 92: the loop it is in ends, and its caller goes on
AfterBreak(st) == Unwind(Pop(st))

\* (mutant) results.insert(0, record)
PrependResult(rs, record) == <<record>> \o rs

\* results.append(record)
AppendResult(rs, record) == Append(rs, record)

\* (mutant) the output field is ignored
OutputVarIdOnly(step) == StepGet(step, "id", NoneKey)

\* step.get("output", step.get("id"))
OutputVar(step) == StepGet(step, "output", StepGet(step, "id", NoneKey))

\* (mutant) a wait_for_event step blocks until its event comes
DispatchingButWaits(type) ==
    pc = "running" /\ stack # <<>> /\ CurType = type /\ type # "wait_for_event"

\* the loop of _execute_steps is at a step of this type
Dispatching(type) == pc = "running" /\ stack # <<>> /\ CurType = type

\* an exception leaves every active _execute_steps call
Raise(msg) ==
    /\ pc' = "raising"
    /\ exc' = msg
    /\ stack' = <<>>

(***************************************************************************)
(* Operations                                                              *)
(***************************************************************************)
Init ==
    /\ flows \in Registries
    /\ initialized = FALSE
    /\ pc = "idle"
    /\ flow_name = ""
    /\ input_data = PyNone
    /\ context = <<>>
    /\ results = <<>>
    /\ stack = <<>>
    /\ exc = ""
    /\ outcome = <<>>
    /\ trace = <<>>
    /\ calls = <<>>
    /\ args = <<>>
    /\ ret = <<>>
    /\ parked = <<>>

\* OrchestrateSkills.connect with Orchestrate enabled and configured
Connect ==
    /\ pc = "idle"
    /\ ~initialized
    /\ initialized' = TRUE
    /\ UNCHANGED <<elsewhere, flows, pc, flow_name, input_data, context, results, stack,
                   exc, outcome, trace, calls>>

\* `flow_name not in self.flows`
UnknownFlow(name) == name \notin DOMAIN flows

\* (mutant) no check of the name: self.flows[flow_name] raises KeyError
NotFoundRaises(name) ==
    /\ pc' = "raised"
    /\ exc' = "KeyError"
    /\ UNCHANGED <<context, results, stack, outcome>>

\* the early return of line 45
NotFound(name) ==
    /\ outcome' = [error |-> <<"Flow ", name, " not found">>, status |-> "failed"]
    /\ pc' = "returned"
    /\ UNCHANGED <<context, results, stack, exc>>

\* execute_flow, lines 42-53: the lookup, the copy of the input, the first call
\* of _execute_steps
ExecuteFlowWith(inputs) ==
    /\ pc = "idle"
    /\ \E name \in FlowNames, inp \in inputs :
        /\ flow_name' = name
        /\ input_data' = inp
        /\ IF UnknownFlow(name)
           THEN NotFound(name)
           ELSE IF ~IsMap(inp)
                THEN \* input_data.copy() is outside the try
                     /\ pc' = "raised"
                     /\ exc' = "'str' object has no attribute 'copy'"
                     /\ UNCHANGED <<context, results, stack, outcome>>
                ELSE /\ context' = inp.m
                     /\ results' = <<>>
                     /\ stack' = Unwind(<<Frame(StepGet(flows[name], "steps", <<>>), <<>>)>>)
                     /\ pc' = "running"
                     /\ UNCHANGED <<exc, outcome>>
    /\ UNCHANGED <<elsewhere, flows, initialized, trace, calls>>

\* a call of execute_flow by a caller of the service
ExecuteFlow == ExecuteFlowWith(Inputs)

\* (mutant) the result is stored before it is tested
SkillContextAlways(ctx, output_var, result) == Put(ctx, output_var, result)

\* the context after a skill step: written only for a result that is true
SkillContext(ctx, output_var, result) ==
    IF Truthy(result) THEN Put(ctx, output_var, result) ELSE ctx

\* the record of a skill step
SkillRecord(step_id, result) ==
    IF Truthy(result)
    THEN [step |-> step_id, status |-> "success", output |-> result]
    ELSE [step |-> step_id, status |-> "failed"]

\* _execute_skill_step, with the invoke_skill call it makes
SkillStep ==
    /\ Dispatching("skill")
    /\ trace' = Append(trace, [path |-> CurPath, type |-> "skill", id |-> CurId])
    /\ LET skill_name == StepGet(Cur, "skill", PyNone)
           skill_input == StepGet(Cur, "input", PyMap(<<>>))
       IN IF ~IsMap(skill_input)
          THEN \* template.items() of a value that is no dict
               /\ Raise("'str' object has no attribute 'items'")
               /\ UNCHANGED <<context, results, calls>>
          ELSE \E answer \in HttpAnswers :
                LET resolved_input == PyMap(resolve_variables(skill_input.m, context))
                    result == invoke_skill(initialized, skill_name, resolved_input, answer)
                IN /\ context' = SkillContext(context, OutputVar(Cur), result)
                   /\ results' = AppendResult(results, SkillRecord(CurId, result))
                   /\ calls' = Append(calls, [kind |-> "skill", name |-> skill_name,
                                              input |-> resolved_input, result |-> result])
                   /\ stack' = AfterStep(stack)
                   /\ UNCHANGED <<pc, exc>>
    /\ UNCHANGED <<elsewhere, flows, initialized, flow_name, input_data, outcome>>

\* _execute_script_step, with the handler it runs (the script field of every
\* step of the model is text, so `name in script_content` does not raise)
\* (mutant) the output variable is bound before the handler is called
ScriptContextOnRaiseBound(ctx, output_var) == Put(ctx, output_var, PyNone)

\* the context after the handler raised: line 127 was not reached
ScriptContextOnRaise(ctx, output_var) == ctx

ScriptStep ==
    /\ Dispatching("script")
    /\ trace' = Append(trace, [path |-> CurPath, type |-> "script", id |-> CurId])
    /\ LET script_content == StepGet(Cur, "script", PyStr(<<>>))
           handler == FindHandler(script_content.s)
           r == RunHandler(handler, context)
       IN IF handler = ""
          THEN /\ results' = AppendResult(results,
                    [step |-> CurId, status |-> "skipped", reason |-> "no_handler"])
               /\ UNCHANGED <<context, calls>>
          ELSE /\ calls' = Append(calls, [kind |-> "handler", name |-> handler])
               /\ IF r.ok
                  THEN /\ context' = Put(context, OutputVar(Cur), r.v)
                       /\ results' = AppendResult(results,
                            [step |-> CurId, status |-> "success", output |-> r.v])
                  ELSE /\ results' = AppendResult(results,
                            [step |-> CurId, status |-> "failed", error |-> r.err])
                       /\ context' = ScriptContextOnRaise(context, OutputVar(Cur))
    /\ stack' = AfterStep(stack)
    /\ UNCHANGED <<elsewhere, flows, initialized, pc, flow_name, input_data, exc, outcome>>

\* (mutant) no break after a match: the last matching case wins
MatchCaseLast(cases, ctx) ==
    LET hits == {i \in DOMAIN cases :
                    LET condition == StepGet(cases[i], "condition", PyNone)
                    IN condition = CElse \/ evaluate_condition(condition, ctx)}
    IN IF hits = {} THEN 0 ELSE CHOOSE i \in hits : \A j \in hits : i >= j

\* the loop of lines 142-148: the number of the first case that matches, 0
\* when none does
MatchCase(cases, ctx) ==
    LET hits == {i \in DOMAIN cases :
                    LET condition == StepGet(cases[i], "condition", PyNone)
                    IN condition = CElse \/ evaluate_condition(condition, ctx)}
    IN IF hits = {} THEN 0 ELSE CHOOSE i \in hits : \A j \in hits : i <= j

\* the cases whose condition the loop passed to _evaluate_condition before it
\* broke at case m (or ran out, m = 0): `condition == "else" or ...` evaluates
\* none that is the literal else
EvaluatedCases(cases, m) ==
    {i \in DOMAIN cases : (m = 0 \/ i <= m)
                            /\ StepGet(cases[i], "condition", PyNone) # CElse}

\* _execute_switch_step: the matched case's actions become the innermost loop
SwitchStep ==
    /\ Dispatching("switch")
    /\ LET cases == StepGet(Cur, "cases", <<>>)
           m == MatchCase(cases, context)
       IN /\ trace' = Append(trace, [path |-> CurPath, type |-> "switch", id |-> CurId,
                                     matched |-> m,
                                     evaluated |-> EvaluatedCases(cases, m)])
          /\ stack' = IF m = 0 THEN AfterStep(stack)
                      ELSE Unwind(Append(Advance(stack),
                                Frame(StepGet(cases[m], "actions", <<>>),
                                      CurPath \o <<m>>)))
    /\ UNCHANGED <<elsewhere, flows, initialized, pc, flow_name, input_data, context,
                   results, exc, outcome, calls>>

\* the wait_for_event branch, lines 87-92
WaitStep ==
    /\ Dispatching("wait_for_event")
    /\ trace' = Append(trace, [path |-> CurPath, type |-> "wait_for_event", id |-> CurId])
    /\ results' = AppendResult(results,
            [step |-> CurId, status |-> "paused", reason |-> "wait_for_event"])
    /\ stack' = AfterBreak(stack)
    /\ UNCHANGED <<elsewhere, flows, initialized, pc, flow_name, input_data, context,
                   exc, outcome, calls>>

StepTypes == {"skill", "script", "switch", "wait_for_event"}

\* a step of any other type matches no branch of lines 78-92
OtherStep ==
    /\ pc = "running" /\ stack # <<>> /\ CurType \notin StepTypes
    /\ trace' = Append(trace, [path |-> CurPath, type |-> CurType, id |-> CurId])
    /\ stack' = AfterStep(stack)
    /\ UNCHANGED <<elsewhere, flows, initialized, pc, flow_name, input_data, context,
                   results, exc, outcome, calls>>

\* (mutant) a run with a paused record reports the status paused
OutcomeReportsPause(status, rs) ==
    [flow |-> flow_name,
     status |-> IF \E i \in DOMAIN rs : "status" \in DOMAIN rs[i] /\ rs[i].status = "paused"
                THEN "paused" ELSE status,
     results |-> rs, final_context |-> context]

\* the dict returned at lines 63-68
Outcome(status, rs) ==
    [flow |-> flow_name, status |-> status, results |-> rs, final_context |-> context]

\* _execute_steps returned: lines 57 and 63-68
FlowCompleted ==
    /\ pc = "running" /\ stack = <<>>
    /\ outcome' = Outcome("completed", results)
    /\ pc' = "returned"
    /\ UNCHANGED <<elsewhere, flows, initialized, flow_name, input_data, context, results,
                   stack, exc, trace, calls>>

\* (mutant) results = [{"error": str(e)}]: the records made so far are lost
FailureResultsOnly(rs, msg) == <<[error |-> msg]>>

\* the results after the handler of line 58 ran
FailureResults(rs, msg) == AppendResult(rs, [error |-> msg])

\* _execute_steps raised: lines 58-61 and 63-68
FlowFailed ==
    /\ pc = "raising"
    /\ results' = FailureResults(results, exc)
    /\ outcome' = Outcome("failed", results')
    /\ pc' = "returned"
    /\ UNCHANGED <<elsewhere, flows, initialized, flow_name, input_data, context,
                   stack, exc, trace, calls>>

Next ==
    \/ Connect
    \/ ExecuteFlow
    \/ SkillStep
    \/ ScriptStep
    \/ SwitchStep
    \/ WaitStep
    \/ OtherStep
    \/ FlowCompleted
    \/ FlowFailed

Spec == Init /\ [][Next]_vars

(***************************************************************************)
(* Properties                                                              *)
(***************************************************************************)
Last(s) == s[Len(s)]
Front(s) == SubSeq(s, 1, Len(s) - 1)
IsPrefix(s, t) == Len(s) <= Len(t) /\ SubSeq(t, 1, Len(s)) = s

\* a registered flow is being run, or was run, on a map
InCall == pc \in {"running", "raising", "returned"} /\ ~UnknownFlow(flow_name)

\* the step list at a place of the flow: <<>> is the top level, <<i, m>> \o rest
\* goes into the actions of case m of the switch at index i
RECURSIVE SeqAt(_, _)
SeqAt(steps, place) ==
    IF place = <<>> THEN steps
    ELSE SeqAt(StepGet(StepGet(steps[place[1]], "cases", <<>>)[place[2]], "actions", <<>>),
               SubSeq(place, 3, Len(place)))

TopList == StepGet(flows[flow_name], "steps", <<>>)

\* the step declared at the place of a trace entry
StepAt(path) == SeqAt(TopList, Front(path))[Last(path)]

\* p and q are places of steps of one sequence
SameSequence(p, q) == Len(p) = Len(q) /\ Front(p) = Front(q)

IsPaused(r) == "status" \in DOMAIN r /\ r.status = "paused"
IsStepRecord(r) == "step" \in DOMAIN r

PausedRecord(id) == [step |-> id, status |-> "paused", reason |-> "wait_for_event"]

IsWait(e) == e.type = "wait_for_event"

\* C1: once a paused record has been appended, no further record is appended
\* and the context is written no more in that execute_flow call, also when the
\* wait_for_event step is an action of a switch case and steps follow the switch
C1_PauseEndsExecution ==
    [][(\E i \in DOMAIN results : IsPaused(results[i]))
        => (results' = results /\ context' = context)]_vars

\* C2: in any step sequence a wait_for_event step appends exactly one paused
\* record with reason wait_for_event, and no step declared after it in the same
\* sequence is dispatched
C2_WaitHaltsSiblings ==
    LET waits == SelectSeq(trace, IsWait)
        paused == SelectSeq(results, IsPaused)
    IN /\ Len(paused) = Len(waits)
       /\ \A n \in DOMAIN waits : paused[n] = PausedRecord(waits[n].id)
       /\ \A i \in DOMAIN trace : IsWait(trace[i]) =>
            \A j \in DOMAIN trace :
                SameSequence(trace[i].path, trace[j].path)
                    => Last(trace[j].path) <= Last(trace[i].path)

\* a wait_for_event step with steps declared after it was dispatched, and the
\* call returned
C2_Witness ==
    /\ pc = "returned" /\ InCall
    /\ \E i \in DOMAIN trace :
        /\ IsWait(trace[i])
        /\ Last(trace[i].path) < Len(SeqAt(TopList, Front(trace[i].path)))
        /\ Len(trace[i].path) > 1

\* C3: execute_flow with a name that is no key of the registry (an exact,
\* case-sensitive match) returns status failed with at most one result
\* record (the code returns no results field at all), dispatches
\* no step, invokes no skill, runs no handler, and does not raise
C3_UnknownFlowFails ==
    (pc # "idle" /\ UnknownFlow(flow_name)) =>
        /\ pc = "returned"
        /\ outcome.status = "failed"
        /\ ("results" \in DOMAIN outcome => Len(outcome.results) <= 1)
        /\ results = <<>> /\ context = <<>>
        /\ trace = <<>> /\ calls = <<>>

\* a name that differs from the registered one only in case, with an input
\* that is not even a map
C3_Witness ==
    /\ pc = "returned"
    /\ flow_name = "testflow"
    /\ DOMAIN flows = {"TestFlow"}
    /\ ~IsMap(input_data)

\* C4: an error that escapes the step sequence is caught by execute_flow: no
\* further step is dispatched, one failure record with the message is appended
\* after the records made so far, the status is failed, the context is returned
\* as it was, and the call returns instead of raising
C4_EscapedErrorCaught ==
    [][pc = "raising" =>
        /\ pc' = "returned"
        /\ results' = Append(results, [error |-> exc])
        /\ context' = context
        /\ trace' = trace /\ calls' = calls
        /\ outcome' = [flow |-> flow_name, status |-> "failed",
                       results |-> results', final_context |-> context]]_vars

\* a run that failed after making records and writing the context
C4_Witness ==
    /\ pc = "returned" /\ InCall /\ exc # ""
    /\ outcome.status = "failed"
    /\ Len(results) >= 2
    /\ Keys(context) # Keys(input_data.m)

IsSwitch(e) == e.type = "switch"

\* the frame of the step list at a place is still active
Active(place) == \E f \in DOMAIN stack : stack[f].path = place

\* every dispatched action of a switch case belongs to the matched case of a
\* switch dispatched before it; the actions of a list are dispatched in
\* declared order, each once; and a list that is no longer active was run to
\* its end unless a wait_for_event step or an error ended it
ActionsOfMatchedCase ==
    InCall =>
    /\ \A j \in DOMAIN trace : Len(trace[j].path) >= 3 =>
        \E i \in 1..(j - 1) :
            /\ IsSwitch(trace[i])
            /\ trace[i].path = SubSeq(trace[j].path, 1, Len(trace[j].path) - 2)
            /\ trace[i].matched = trace[j].path[Len(trace[j].path) - 1]
    /\ \A i, j \in DOMAIN trace :
        (i < j /\ SameSequence(trace[i].path, trace[j].path))
            => Last(trace[i].path) < Last(trace[j].path)
    /\ \A j \in DOMAIN trace : Last(trace[j].path) > 1 =>
        \E i \in 1..(j - 1) : trace[i].path = Front(trace[j].path) \o <<Last(trace[j].path) - 1>>
    /\ \A i \in DOMAIN trace : (IsSwitch(trace[i]) /\ trace[i].matched > 0) =>
        LET place == trace[i].path \o <<trace[i].matched>>
            actions == SeqAt(TopList, place)
            done == {n \in DOMAIN actions : \E j \in DOMAIN trace : trace[j].path = place \o <<n>>}
        IN \/ done = DOMAIN actions
           \/ Active(place)
           \/ exc # ""
           \/ \E n \in done : StepGet(actions[n], "type", "") = "wait_for_event"

\* C5: a switch runs the actions of the first case whose condition is the
\* literal else or evaluates true, in declared order, and of no other case, and
\* evaluates the condition of no case after it; with no such case it appends nothing, writes nothing, and the sequence it is in
\* goes on with its next step
C5_SwitchFirstMatch ==
    [][/\ Dispatching("switch") =>
            LET cases == IF "cases" \in DOMAIN Cur THEN Cur.cases ELSE <<>>
                Holds(n) == /\ "condition" \in DOMAIN cases[n]
                            /\ \/ cases[n].condition = PyStr(<<"else">>)
                               \/ evaluate_condition(cases[n].condition, context)
                First(n) == n \in DOMAIN cases /\ Holds(n) /\ \A l \in 1..(n - 1) : ~Holds(l)
                m == Last(trace').matched
            IN /\ context' = context /\ results' = results /\ calls' = calls
               /\ trace' = Append(trace, Last(trace'))
               /\ Last(trace').path = CurPath /\ IsSwitch(Last(trace'))
               /\ IF \E n \in DOMAIN cases : Holds(n)
                  THEN First(m) /\ Last(trace').evaluated \subseteq 1..m
                  ELSE m = 0
               /\ (m = 0 /\ Top.i < Len(Top.steps)) =>
                    (pc' = "running" /\ stack' = [stack EXCEPT ![Len(stack)].i = Top.i + 1])
       /\ ActionsOfMatchedCase']_vars

\* cases [a, else] with a false ran the else branch, and a switch none of
\* whose cases matched was passed
C5_Witness ==
    /\ pc = "returned" /\ InCall
    /\ \E i, j, l \in DOMAIN trace :
        /\ trace[i].id = "sw2" /\ trace[i].matched = 2
        /\ trace[j].path = trace[i].path \o <<2, 1>>
        /\ trace[l].id = "sw5" /\ trace[l].matched = 0

\* the skill step at the entry raised before it made a record
RaisedAt(e) == e.type = "skill" /\ ~IsMap(StepGet(StepAt(e.path), "input", PyMap(<<>>)))

\* the trace entries of the steps that made a record
Produces(e) == e.type \in {"skill", "script", "wait_for_event"} /\ ~RaisedAt(e)
Producers == SelectSeq(trace, Produces)
StepRecords == SelectSeq(results, IsStepRecord)

\* p comes before q in declaration order, the actions of a case standing where
\* their switch stands
DeclaredBefore(p, q) ==
    \E n \in 1..Len(p) :
        /\ n <= Len(q)
        /\ SubSeq(p, 1, n - 1) = SubSeq(q, 1, n - 1)
        /\ p[n] < q[n]

\* the n-th record is the record of the n-th step that made one, and those
\* steps ran in declaration order; a failure record of the call comes last
RecordsInOrder ==
    InCall =>
    /\ Len(StepRecords) = Len(Producers)
    /\ \A n \in DOMAIN StepRecords : StepRecords[n].step = Producers[n].id
    /\ \A a, b \in DOMAIN Producers :
        a < b => DeclaredBefore(Producers[a].path, Producers[b].path)
    /\ \A n \in DOMAIN results : ~IsStepRecord(results[n]) => n = Len(results)

\* C6: the records are in execution order, which is the declaration order of
\* the steps, and a record once appended is never reordered, changed or removed
C6_ResultsInExecutionOrder ==
    [][IsPrefix(results, results') /\ RecordsInOrder']_vars

\* three records: of a top-level step, of an action of a switch nested in a
\* switch case, and of the action after that nested switch
C6_Witness ==
    /\ pc = "returned" /\ InCall
    /\ Len(StepRecords) = 3
    /\ Len(Producers[1].path) = 1
    /\ Len(Producers[2].path) = 5
    /\ Len(Producers[3].path) = 3
    /\ StepRecords[1].step # StepRecords[2].step
    /\ StepRecords[2].step # StepRecords[3].step

\* the output key a step declares: its output, or its id without one
DeclaredOutput(step) ==
    IF "output" \in DOMAIN step THEN step.output
    ELSE IF "id" \in DOMAIN step THEN step.id ELSE NoneKey

IsSuccess(r) == "status" \in DOMAIN r /\ r.status = "success"

\* the output keys of the steps that recorded success
SuccessKeys ==
    {DeclaredOutput(StepAt(Producers[n].path)) :
        n \in {l \in DOMAIN Producers : l \in DOMAIN StepRecords /\ IsSuccess(StepRecords[l])}}

\* C7: the keys of final_context are the keys of the input and the output keys
\* of the skill and script steps that recorded success, no more and no fewer
C7_FinalContextKeys ==
    InCall =>
        /\ Keys(context) = Keys(input_data.m) \cup SuccessKeys
        /\ pc = "returned" => outcome.final_context = context

\* a run with a success that added a key, and a failed, a skipped or a paused
\* step
C7_Witness ==
    /\ pc = "returned" /\ InCall
    /\ Keys(context) # Keys(input_data.m)
    /\ \E n \in DOMAIN results : IsSuccess(results[n])
    /\ \E n \in DOMAIN results : IsStepRecord(results[n]) /\ results[n].status = "failed"
    /\ \E n \in DOMAIN results : IsStepRecord(results[n]) /\ results[n].status # "success"
                                    /\ results[n].step \notin Keys(context)

\* C8: a skill or script step that fails or is skipped (any step but a
\* wait_for_event that made its record or made none) does not end its
\* sequence: the step declared next in it is the next one dispatched
C8_FailureDoesNotHalt ==
    InCall =>
    \A i \in DOMAIN trace :
        LET p == trace[i].path
            next == Front(p) \o <<Last(p) + 1>>
        IN (/\ ~IsSwitch(trace[i]) /\ ~IsWait(trace[i]) /\ ~RaisedAt(trace[i])
            /\ Last(p) < Len(SeqAt(TopList, Front(p))))
           => IF i < Len(trace) THEN trace[i + 1].path = next
              ELSE pc = "running" /\ stack # <<>> /\ CurPath = next

\* a failed step and a skipped step, each followed by the record of the next
\* step of the sequence
C8_Witness ==
    /\ pc = "returned" /\ InCall
    /\ Len(results) = 3
    /\ \A n \in 1..3 : IsStepRecord(results[n])
    /\ results[1].status = "failed"
    /\ results[2].status = "skipped"

\* C9: a skill step whose invocation returns None or an empty result appends
\* one failed record and leaves the context as it was
C9_FailedSkillLeavesContext ==
    [][(/\ Dispatching("skill")
        /\ Len(calls') = Len(calls) + 1
        /\ ~Truthy(Last(calls').result))
       => /\ results' = Append(results, [step |-> CurId, status |-> "failed"])
          /\ context' = context]_vars

\* the skill returned an empty object
C9_Witness ==
    /\ calls # <<>> /\ results # <<>>
    /\ Last(calls).kind = "skill"
    /\ Last(calls).result = PyMap(<<>>)
    /\ Last(results) = [step |-> "s1", status |-> "failed"]
    /\ context # <<>>

\* C10: when a skill or script step records success, the context then binds
\* the step's output key (its output, or its id without one) to the output of
\* the record, and every other key keeps its value
C10_SuccessBindsOutput ==
    [][(Len(results') = Len(results) + 1 /\ IsSuccess(Last(results')))
       => LET key == DeclaredOutput(Cur) IN
          /\ Dispatching("skill") \/ Dispatching("script")
          /\ Has(context', key)
          /\ Lookup(context', key) = Last(results').output
          /\ Keys(context') = Keys(context) \cup {key}
          /\ \A other \in Keys(context) \ {key} :
                Lookup(context', other) = Lookup(context, other)]_vars

\* a success bound under a declared output, and one bound under the None of a
\* step with neither output nor id
C10_Witness ==
    /\ pc = "returned" /\ InCall
    /\ \E a, b \in DOMAIN results :
        /\ IsSuccess(results[a]) /\ results[a].step = "step1"
        /\ Has(context, "validation") /\ ~Has(context, "step1")
        /\ Lookup(context, "validation") = results[a].output
        /\ IsSuccess(results[b]) /\ results[b].step = NoneKey
        /\ Has(context, NoneKey)


(***************************************************************************)
(* The flow of test_execute_flow_mock, run on its own                      *)
(***************************************************************************)
\* test_flow of test_execute_flow_mock
TestFlowDef ==
    [name |-> "TestFlow",
     steps |-> <<ScriptValidate, Switch("sw1", <<Case(CValid, <<ScriptApprove>>)>>)>>]

\* the invoices a caller may send: any JSON under total and vendor, or none
E2ETotals ==
    {<<>>, <<Item("total", PyInt(0))>>, <<Item("total", PyInt(100))>>,
     <<Item("total", PyInt(-1))>>, <<Item("total", PyFloat(5))>>,
     <<Item("total", PyStr(<<"abc">>))>>, <<Item("total", PyNone)>>}
E2EVendors ==
    {<<>>, <<Item("vendor", PyStr(<<>>))>>, <<Item("vendor", PyStr(<<"Acme">>))>>,
     <<Item("vendor", PyNone)>>}
E2EInvoices ==
    {<<>>, <<Item("invoice", PyStr(<<"INV-1">>))>>}
        \cup {<<Item("invoice", PyMap(t \o v))>> : t \in E2ETotals, v \in E2EVendors}
\* what the input may carry besides the invoice
E2EExtras ==
    {<<>>, <<Item("validation", PyMap(<<Item("ok", PyBool(TRUE))>>))>>,
     <<Item("validation", PyMap(<<Item("ok", PyBool(FALSE))>>))>>}
E2EInputs == {PyMap(x \o i) : x \in E2EExtras, i \in E2EInvoices}

InitE2E ==
    /\ flows = [n \in {"TestFlow"} |-> TestFlowDef]
    /\ initialized = FALSE
    /\ pc = "idle"
    /\ flow_name = ""
    /\ input_data = PyNone
    /\ context = <<>>
    /\ results = <<>>
    /\ stack = <<>>
    /\ exc = ""
    /\ outcome = <<>>
    /\ trace = <<>>
    /\ calls = <<>>
    /\ args = <<>>
    /\ ret = <<>>
    /\ parked = <<>>

\* the operations the test flow can reach
NextE2E ==
    \/ Connect
    \/ ExecuteFlowWith(E2EInputs)
    \/ ScriptStep
    \/ SwitchStep
    \/ FlowCompleted

SpecE2E == InitE2E /\ [][NextE2E]_vars

\* the input's invoice has a total above 0 and a vendor that is not empty
InvoiceComplete(inp) ==
    /\ IsMap(inp) /\ Has(inp.m, "invoice")
    /\ LET invoice == Lookup(inp.m, "invoice") IN
        /\ IsMap(invoice)
        /\ Has(invoice.m, "total") /\ Has(invoice.m, "vendor")
        /\ LET total == Lookup(invoice.m, "total")
               vendor == Lookup(invoice.m, "vendor")
           IN /\ IsNumber(total) /\ Tenths(total) > 0
              /\ vendor.k = "str" /\ vendor.s # <<>>

\* the nested auto_approve step (it has no id) recorded success
ApproveSucceeded(rs) ==
    \E i \in DOMAIN rs :
        /\ IsSuccess(rs[i]) /\ rs[i].step = NoneKey
        /\ rs[i].output = PyMap(<<Item("approved", PyBool(TRUE))>>)

TestFlowReturned == pc = "returned" /\ flow_name = "TestFlow"

\* C11: the test flow ends completed, auto_approve records success
\* exactly for an input whose invoice has total > 0 and a vendor, and for such
\* an input validation.ok is true at the end and there are 2 records or more
C11_EndToEnd ==
    TestFlowReturned =>
        /\ outcome.status = "completed"
        /\ ApproveSucceeded(outcome.results) <=> InvoiceComplete(input_data)
        /\ InvoiceComplete(input_data) =>
            /\ Has(outcome.final_context, "validation")
            /\ DictGet(Lookup(outcome.final_context, "validation").m, "ok", PyNone)
                    = PyBool(TRUE)
            /\ Len(outcome.results) >= 2


(***************************************************************************)
(* The helper methods called on their own, as the unit tests call them     *)
(***************************************************************************)
\* a condition with no right operand
CMalformed == PyStr(<<"risk.score", "<">>)
CValidOrOther == PyStr(<<"validation.ok", "==", "true", "||", "invoice.total", ">", "0">>)
COtherOrValid == PyStr(<<"invoice.total", ">", "0", "||", "validation.ok", "==", "true">>)
CValidAndOther == PyStr(<<"validation.ok", "==", "true", "&&", "invoice.total", ">", "0">>)
\* a dotted path that is a name in the scope of the eval
COwnName == PyStr(<<"context.get">>)
CExit == PyStr(<<ExitCall>>)

\* the condition values _evaluate_condition is handed: the condition of a
\* case, or the None (or any other JSON) of a case without a proper one
CondValues ==
    Conds \cup {CMalformed, CValidOrOther, COtherOrValid, CValidAndOther,
                COwnName, CExit, PyNone, PyInt(1)}

Risk(items) == <<Item("risk", PyMap(items))>>
CondRisks ==
    {<<>>, Risk(<<>>), <<Item("risk", PyStr(<<"high">>))>>}
        \cup {Risk(<<Item("score", v)>>) :
                v \in {PyInt(0), PyFloat(0), PyFloat(1), PyFloat(3), PyFloat(8), PyNone}}
        \cup {Risk(<<Item("result", PyMap(<<Item("score", r)>>))>>) :
                r \in {PyFloat(1), PyFloat(8), PyInt(0)}}
        \cup {Risk(<<Item("score", v), Item("result", PyMap(<<Item("score", r)>>))>>) :
                v \in {PyInt(0), PyFloat(1), PyFloat(8)}, r \in {PyFloat(1), PyFloat(8)}}
CondValidations ==
    {<<>>, <<Item("validation", PyMap(<<>>))>>}
        \cup {<<Item("validation", PyMap(<<Item("ok", v)>>))>> :
                v \in {PyBool(TRUE), PyBool(FALSE), PyStr(<<"yes">>)}}
CondContexts == {r \o v : r \in CondRisks, v \in CondValidations}

EvaluateArgs ==
    [method : {"_evaluate_condition"}, condition : CondValues, context : CondContexts]

\* the string values of a template: placeholders of keys and subfields that
\* the contexts below hold, hold otherwise, or lack
TemplateTexts ==
    {<<"Hello ">> \o Placeholder(<<"name">>),
     <<"ID: ">> \o Placeholder(<<"data", ".", "id">>),
     Placeholder(<<"name">>) \o <<" and ">> \o Placeholder(<<"name">>),
     Placeholder(<<"name">>) \o Placeholder(<<"missing">>),
     Placeholder(<<"data", ".", "missing">>),
     Placeholder(<<"data">>),
     Placeholder(<<"name", ".", "id">>),
     <<"{{", "name">>,
     <<"plain">>}
TemplateValues ==
    {PyStr(t) : t \in TemplateTexts} \cup {PyInt(100), PyBool(TRUE), PyNone, PyMap(<<>>)}
Templates ==
    {<<>>} \cup {<<Item("greeting", v)>> : v \in TemplateValues}
           \cup {<<Item("greeting", v), Item("ref", w)>> : v, w \in TemplateValues}

ResolveNames ==
    {<<>>} \cup {<<Item("name", v)>> :
                    v \in {PyStr(<<"World">>), PyInt(123), PyBool(TRUE), PyFloat(5), PyNone,
                           PyStr(Placeholder(<<"data", ".", "id">>))}}
ResolveDatas ==
    {<<>>} \cup {<<Item("data", v)>> :
                    v \in {PyMap(<<Item("id", PyInt(123))>>),
                           PyMap(<<Item("id", PyStr(<<"A1">>))>>),
                           PyMap(<<Item("id", PyNone)>>),
                           PyMap(<<>>),
                           PyStr(<<"text">>)}}
\* contexts, in either order of insertion
ResolveContexts ==
    {n \o d : n \in ResolveNames, d \in ResolveDatas}
        \cup {d \o n : n \in ResolveNames, d \in ResolveDatas}

ResolveArgs ==
    [method : {"_resolve_variables"}, template : Templates, context : ResolveContexts]

\* the handler is given the context of a run: what a caller sent
ValidateArgs ==
    [method : {"_script_validate_invoice"}, context : {inp.m : inp \in E2EInputs}]

HelperArgs == EvaluateArgs \cup ResolveArgs \cup ValidateArgs

\* the state of the flow engine while a helper is called on its own
EngineAtRest ==
    /\ flows = <<>>
    /\ initialized = FALSE
    /\ flow_name = ""
    /\ input_data = PyNone
    /\ context = <<>>
    /\ results = <<>>
    /\ stack = <<>>
    /\ exc = ""
    /\ outcome = <<>>
    /\ trace = <<>>
    /\ calls = <<>>
    /\ parked = <<>>

engine == <<flows, initialized, flow_name, input_data, context, results, stack,
            exc, outcome, trace, calls, parked>>

InitHelpers ==
    /\ EngineAtRest
    /\ pc = "idle"
    /\ args \in HelperArgs
    /\ ret = <<>>

\* _evaluate_condition(condition, context); eval_str is its local at line 206
EvaluateCondition ==
    /\ pc = "idle" /\ args.method = "_evaluate_condition"
    /\ ret' = IF evaluation_exits(args.condition, args.context)
               THEN [raised |-> "SystemExit"]
               ELSE [value |-> evaluate_condition(args.condition, args.context),
                     eval_str |-> IF args.condition.k = "str"
                                  THEN RewriteCondition(args.condition.s, args.context)
                                  ELSE <<>>]
    /\ pc' = "returned"
    /\ UNCHANGED <<engine, args>>

\* _resolve_variables(template, context)
ResolveVariables ==
    /\ pc = "idle" /\ args.method = "_resolve_variables"
    /\ ret' = [value |-> resolve_variables(args.template, args.context)]
    /\ pc' = "returned"
    /\ UNCHANGED <<engine, args>>

\* _script_validate_invoice(context)
ValidateInvoice ==
    /\ pc = "idle" /\ args.method = "_script_validate_invoice"
    /\ LET r == script_validate_invoice(args.context) IN
        ret' = IF r.ok THEN [value |-> r.v] ELSE [raised |-> r.err]
    /\ pc' = "returned"
    /\ UNCHANGED <<engine, args>>

NextHelpers ==
    \/ EvaluateCondition
    \/ ResolveVariables
    \/ ValidateInvoice

SpecHelpers == InitHelpers /\ [][NextHelpers]_vars

Evaluated == pc = "returned" /\ args.method = "_evaluate_condition"

\* the score the documentation has the evaluator use: risk.score when the
\* context has one, else risk.result.score, else 0.5
DocumentedScore(ctx) ==
    LET a == get_val(<<"risk", "score">>, PyMap(ctx))
        b == get_val(<<"risk", "result", "score">>, PyMap(ctx))
    IN IF a # PyNone THEN a ELSE IF b # PyNone THEN b ELSE PyFloat(DefaultScore)

ScoreBelow(ctx) ==
    LET v == DocumentedScore(ctx) IN IsNumber(v) /\ Tenths(v) < 3

ValidationOk(ctx) == get_val(<<"validation", "ok">>, PyMap(ctx)) = PyBool(TRUE)

\* C12: "risk.score < 0.3 && validation.ok == true" is true exactly when the
\* context's risk score is below 0.3 and its validation.ok is true, and
\* "risk.score < 0.3" exactly when the score is below 0.3
C12_LowRiskCondition ==
    Evaluated =>
        /\ args.condition = CLowRisk =>
              (ret.value <=> (ScoreBelow(args.context) /\ ValidationOk(args.context)))
        /\ args.condition = CRisk => (ret.value <=> ScoreBelow(args.context))

\* C13: the text put in place of risk.score is that of the context's
\* risk.score when it has one (0 included), else of risk.result.score, else
\* of 0.5
C13_ScoreFallback ==
    (Evaluated /\ args.condition = CRisk) =>
        ret.eval_str = StrOf(DocumentedScore(args.context)) \o <<"<", "0.3">>


\* the dotted paths of the model's conditions that the evaluator does not
\* substitute
OtherPaths == {"invoice.total", "context.get"}

RefersToOtherPath(condition) ==
    condition.k = "str" /\ \E i \in DOMAIN condition.s : condition.s[i] \in OtherPaths

\* the context has no validation.ok for the condition to read
MissingPath(condition, ctx) ==
    condition = CValid /\ get_val(<<"validation", "ok">>, PyMap(ctx)) = PyNone

\* C14: the evaluator raises for no condition value and no context, and a
\* condition that is no string, reads a missing path, is malformed or refers
\* to a dotted path other than risk.score and validation.ok yields false
C14_EvaluatorFailsToFalse ==
    Evaluated =>
        /\ "raised" \notin DOMAIN ret
        /\ (\/ args.condition.k # "str"
            \/ args.condition \in {CMalformed, CElse}
            \/ MissingPath(args.condition, args.context)
            \/ RefersToOtherPath(args.condition)) => ret.value = FALSE


Resolved == pc = "returned" /\ args.method = "_resolve_variables"

\* the text that one pass over a template text yields when every placeholder
\* of a scalar key, and of a subfield of a key holding a map, gives way to
\* the text of its value
RECURSIVE Substituted(_, _)
Substituted(v, ctx) ==
    IF v = <<>> THEN <<>>
    ELSE IF /\ Len(v) >= 3 /\ v[1] = "{{" /\ v[3] = "}}"
            /\ Has(ctx, v[2]) /\ Lookup(ctx, v[2]).k \in {"str", "int", "float", "bool"}
         THEN StrOf(Lookup(ctx, v[2])) \o Substituted(SubSeq(v, 4, Len(v)), ctx)
    ELSE IF /\ Len(v) >= 5 /\ v[1] = "{{" /\ v[3] = "." /\ v[5] = "}}"
            /\ Has(ctx, v[2]) /\ IsMap(Lookup(ctx, v[2]))
            /\ Has(Lookup(ctx, v[2]).m, v[4])
         THEN StrOf(Lookup(Lookup(ctx, v[2]).m, v[4])) \o Substituted(SubSeq(v, 6, Len(v)), ctx)
    ELSE <<Head(v)>> \o Substituted(Tail(v), ctx)

\* no value of the context is itself a text with a placeholder
PlainContext(ctx) ==
    \A i \in DOMAIN ctx : ctx[i].val.k = "str" => ~Contains(ctx[i].val.s, <<"{{">>)

AbsentAt(v, i, ctx) ==
    /\ v[i] = "{{"
    /\ \/ /\ Len(v) >= i + 2 /\ v[i + 2] = "}}"
          /\ ~Has(ctx, v[i + 1])
       \/ /\ Len(v) >= i + 4 /\ v[i + 2] = "." /\ v[i + 4] = "}}"
          /\ ~(/\ Has(ctx, v[i + 1])
               /\ IsMap(Lookup(ctx, v[i + 1]))
               /\ Has(Lookup(ctx, v[i + 1]).m, v[i + 3]))

\* the placeholder that starts at position i of v
PlaceholderAt(v, i) ==
    IF v[i + 2] = "}}" THEN SubSeq(v, i, i + 2) ELSE SubSeq(v, i, i + 4)

\* C16: resolving returns a map for every template map and context, leaves
\* the arguments as they were, and leaves every placeholder whose path the
\* context lacks in the resolved string as it stands (a string none of
\* whose placeholders can be resolved comes back unchanged)
C16_AbsentLeftVerbatim ==
    /\ [](Resolved =>
            /\ "value" \in DOMAIN ret
            /\ \A i \in DOMAIN args.template :
                LET v == args.template[i].val
                    r == ret.value[i].val
                IN v.k = "str" =>
                    /\ r.k = "str"
                    /\ \A p \in DOMAIN v.s :
                          AbsentAt(v.s, p, args.context)
                              => Contains(r.s, PlaceholderAt(v.s, p))
                    /\ Substituted(v.s, args.context) = v.s => r = v)
    /\ [][args.method = "_resolve_variables" => args' = args]_vars

\* a template with a placeholder of an absent key next to one of a present
\* key: the first stays, the second goes
C16_Witness ==
    /\ Resolved
    /\ args.template = <<Item("greeting",
                              PyStr(<<"{{", "name", "}}", "{{", "missing", "}}">>))>>
    /\ args.context = <<Item("name", PyStr(<<"World">>))>>
    /\ ret.value = <<Item("greeting", PyStr(<<"World", "{{", "missing", "}}">>))>>


Validated == pc = "returned" /\ args.method = "_script_validate_invoice"

ValidResult ==
    PyMap(<<Item("ok", PyBool(TRUE)), Item("message", PyStr(<<"Valid">>))>>)
MissingResult ==
    PyMap(<<Item("ok", PyBool(FALSE)),
            Item("message", PyStr(<<"Missing required fields">>))>>)

\* C17: the validate-invoice handler returns ok true with "Valid" when the
\* context's invoice has a total above 0 and a vendor that is not empty, and
\* for every other context ok false with "Missing required fields"
C17_ValidateInvoice ==
    Validated =>
        /\ "value" \in DOMAIN ret
        /\ ret.value = IF InvoiceComplete(PyMap(args.context))
                       THEN ValidResult ELSE MissingResult


(***************************************************************************)
(* Flows of script steps only                                              *)
(***************************************************************************)
\* a script whose text names both handlers, the second registered one first
ScriptBoth ==
    [id |-> "s5", type |-> "script",
     script |-> PyStr(<<"auto_approve", " after ", "validate_invoice">>),
     output |-> "checked"]

ScriptSteps == {ScriptValidate, ScriptApprove, ScriptNoHandler, ScriptBoth}

ScriptFlowDefs ==
    {[name |-> "TestFlow", steps |-> s] :
        s \in UNION {[1..n -> ScriptSteps] : n \in 0..MaxSteps}}

InitScript ==
    /\ flows \in {[n \in {"TestFlow"} |-> f] : f \in ScriptFlowDefs}
    /\ initialized = FALSE
    /\ pc = "idle"
    /\ flow_name = ""
    /\ input_data = PyNone
    /\ context = <<>>
    /\ results = <<>>
    /\ stack = <<>>
    /\ exc = ""
    /\ outcome = <<>>
    /\ trace = <<>>
    /\ calls = <<>>
    /\ args = <<>>
    /\ ret = <<>>
    /\ parked = <<>>

\* the operations a flow of script steps can reach
NextScript ==
    \/ Connect
    \/ ExecuteFlow
    \/ ScriptStep
    \/ FlowCompleted

SpecScript == InitScript /\ [][NextScript]_vars

\* the handler the documentation has a script text run: the first of
\* validate_invoice, auto_approve whose name the text contains; "" for none
DocumentedHandler(text) ==
    IF Contains(text, <<"validate_invoice">>) THEN "validate_invoice"
    ELSE IF Contains(text, <<"auto_approve">>) THEN "auto_approve"
    ELSE ""

\* C18: a script step runs the first handler, in registration order, whose
\* name occurs in the step's script text, and no other; when no name occurs
\* it appends one skipped / no_handler record, leaves the context alone and
\* the sequence goes on to its next step
C18_FirstRegisteredHandler ==
    [][(Dispatching("script") /\ trace' # trace)
       => LET handler == DocumentedHandler(StepGet(Cur, "script", PyStr(<<>>)).s) IN
          /\ handler # "" => calls' = Append(calls, [kind |-> "handler", name |-> handler])
          /\ handler = "" =>
                /\ results' = Append(results, [step |-> CurId, status |-> "skipped",
                                               reason |-> "no_handler"])
                /\ context' = context
                /\ calls' = calls
                /\ pc' = "running"
                /\ Top.i < Len(Top.steps)
                      => stack' = [stack EXCEPT ![Len(stack)].i = @ + 1]]_vars

\* a skipped step, then a step whose text names both handlers and runs
\* validate_invoice
C18_Witness ==
    /\ pc = "returned" /\ InCall
    /\ Len(results) = 2
    /\ results[1] = [step |-> "s3", status |-> "skipped", reason |-> "no_handler"]
    /\ results[2].step = "s5"
    /\ calls = <<[kind |-> "handler", name |-> "validate_invoice"]>>
    /\ Keys(context) = {"invoice", "checked"}


\* the handler raises on this context: the invoice is no JSON object, or
\* (validate_invoice) its total is no number
HandlerRaises(handler, ctx) ==
    /\ handler # ""
    /\ Has(ctx, "invoice")
    /\ LET invoice == Lookup(ctx, "invoice") IN
        \/ ~IsMap(invoice)
        \/ /\ handler = "validate_invoice"
           /\ Has(invoice.m, "total") /\ ~IsNumber(Lookup(invoice.m, "total"))

\* C19: when the handler of a script step raises, the step appends one
\* failed record with the error message, the context stays as it was, the
\* run goes on, and a run of script steps ends completed
C19_HandlerRaiseContained ==
    /\ [][(/\ Dispatching("script") /\ trace' # trace
           /\ HandlerRaises(DocumentedHandler(StepGet(Cur, "script", PyStr(<<>>)).s),
                            context))
          => /\ Len(results') = Len(results) + 1
             /\ Front(results') = results
             /\ Last(results').step = CurId
             /\ Last(results').status = "failed"
             /\ Last(results').error = "'str' object has no attribute 'get'"
             /\ context' = context
             /\ pc' = "running" /\ exc' = exc]_vars
    /\ [](pc \in {"raising", "returned", "raised"} /\ InCall
            => pc = "returned" /\ outcome.status = "completed")

\* validate_invoice raised on an invoice that is a string; the next step ran
C19_Witness ==
    /\ pc = "returned" /\ InCall
    /\ input_data = PyMap(<<Item("invoice", PyStr(<<"INV-1">>))>>)
    /\ Len(results) = 2
    /\ results[1] = [step |-> "step1", status |-> "failed",
                     error |-> "'str' object has no attribute 'get'"]
    /\ results[2].status = "skipped"
    /\ context = input_data.m
    /\ outcome.status = "completed"


(***************************************************************************)
(* Two execute_flow calls on the one FlowRunner, on two threads            *)
(*                                                                         *)
(* The variables pc .. calls are the locals of the call whose thread is    *)
(* running; parked holds the locals of the other call.  A thread switch    *)
(* exchanges the two.  self.flows and the skills client are the objects    *)
(* the two calls share.                                                    *)
(***************************************************************************)
Locals ==
    [pc |-> pc, flow_name |-> flow_name, input_data |-> input_data,
     context |-> context, results |-> results, stack |-> stack, exc |-> exc,
     outcome |-> outcome, trace |-> trace, calls |-> calls]

\* the locals of a call not yet made
NoCall ==
    [pc |-> "idle", flow_name |-> "", input_data |-> PyNone, context |-> <<>>,
     results |-> <<>>, stack |-> <<>>, exc |-> "", outcome |-> <<>>,
     trace |-> <<>>, calls |-> <<>>]

\* the flows the two calls run
ConcurrentFlowDefs ==
    {TestFlowDef,
     [name |-> "TestFlow",
      steps |-> <<SkillRisk,
                  Switch("sw2", <<Case(CLowRisk, <<ScriptApprove>>),
                                  Case(CElse, <<WaitApproval, SkillNotify>>)>>)>>],
     [name |-> "TestFlow", steps |-> <<ScriptValidate, SkillBadInput>>],
     [name |-> "TestFlow", steps |-> <<OtherType, WaitApproval, ScriptApprove>>]}

ConcurrentInputs ==
    {PyMap(<<>>),
     PyMap(<<Item("invoice", Invoice(PyInt(100), <<"Acme">>))>>),
     PyMap(<<Item("risk", PyMap(<<Item("score", PyFloat(1))>>)),
             Item("validation", PyMap(<<Item("ok", PyBool(TRUE))>>))>>)}

InitConcurrent ==
    /\ flows \in {[n \in {"TestFlow"} |-> f] : f \in ConcurrentFlowDefs}
    /\ initialized = FALSE
    /\ pc = "idle"
    /\ flow_name = ""
    /\ input_data = PyNone
    /\ context = <<>>
    /\ results = <<>>
    /\ stack = <<>>
    /\ exc = ""
    /\ outcome = <<>>
    /\ trace = <<>>
    /\ calls = <<>>
    /\ args = <<>>
    /\ ret = <<>>
    /\ parked = NoCall

\* (mutant) results is an attribute of the runner: one list for both calls
YieldSharingResults ==
    /\ parked' = Locals
    /\ pc' = parked.pc
    /\ flow_name' = parked.flow_name
    /\ input_data' = parked.input_data
    /\ context' = parked.context
    /\ results' = results
    /\ stack' = parked.stack
    /\ exc' = parked.exc
    /\ outcome' = parked.outcome
    /\ trace' = parked.trace
    /\ calls' = parked.calls
    /\ UNCHANGED <<flows, initialized, args, ret>>

\* the scheduler takes the running thread off and puts the other one on:
\* context, results and the rest are locals of execute_flow (lines 47-51),
\* one set per call
Yield ==
    /\ parked' = Locals
    /\ pc' = parked.pc
    /\ flow_name' = parked.flow_name
    /\ input_data' = parked.input_data
    /\ context' = parked.context
    /\ results' = parked.results
    /\ stack' = parked.stack
    /\ exc' = parked.exc
    /\ outcome' = parked.outcome
    /\ trace' = parked.trace
    /\ calls' = parked.calls
    /\ UNCHANGED <<flows, initialized, args, ret>>

NextConcurrent ==
    \/ Connect
    \/ ExecuteFlowWith(ConcurrentInputs)
    \/ SkillStep
    \/ ScriptStep
    \/ SwitchStep
    \/ WaitStep
    \/ OtherStep
    \/ FlowCompleted
    \/ FlowFailed
    \/ Yield

SpecConcurrent == InitConcurrent /\ [][NextConcurrent]_vars


\* the answers the skills service gave a call, in the order it asked
SkillAnswers(cs) == SelectSeq(cs, LAMBDA c : c.kind = "skill")

\* the answer was the mock one (the client was not connected)
IsMockAnswer(a) == a.result = invoke_skill(FALSE, a.name, a.input, <<>>)

\* a run of a step list from step i on with nothing else going on, given the
\* answers of the skills service: the context and the records it ends with
RECURSIVE RunAlone(_, _, _)
RunAlone(steps, i, st) ==
    IF i > Len(steps) \/ st.raised THEN st
    ELSE
    LET step == steps[i]
        type == StepGet(step, "type", "")
        id == StepGet(step, "id", NoneKey)
    IN
    CASE type = "skill" ->
            LET skill_input == StepGet(step, "input", PyMap(<<>>)) IN
            IF ~IsMap(skill_input)
            THEN [st EXCEPT !.raised = TRUE,
                            !.exc = "'str' object has no attribute 'items'"]
            ELSE LET a == IF st.answers = <<>>
                          THEN [name |-> PyNone, input |-> PyNone, result |-> PyNone]
                          ELSE Head(st.answers)
                     resolved_input == PyMap(resolve_variables(skill_input.m, st.context))
                     result == IF IsMockAnswer(a)
                               THEN invoke_skill(FALSE, StepGet(step, "skill", PyNone),
                                                 resolved_input, <<>>)
                               ELSE a.result
                 IN RunAlone(steps, i + 1,
                        [st EXCEPT !.context = SkillContext(@, OutputVar(step), result),
                                   !.results = Append(@, SkillRecord(id, result)),
                                   !.answers = IF @ = <<>> THEN @ ELSE Tail(@)])
      [] type = "script" ->
            LET handler == FindHandler(StepGet(step, "script", PyStr(<<>>)).s)
                r == RunHandler(handler, st.context)
            IN RunAlone(steps, i + 1,
                IF handler = ""
                THEN [st EXCEPT !.results = Append(@, [step |-> id, status |-> "skipped",
                                                       reason |-> "no_handler"])]
                ELSE IF r.ok
                THEN [st EXCEPT !.context = Put(@, OutputVar(step), r.v),
                                !.results = Append(@, [step |-> id, status |-> "success",
                                                       output |-> r.v])]
                ELSE [st EXCEPT !.results = Append(@, [step |-> id, status |-> "failed",
                                                       error |-> r.err])])
      [] type = "switch" ->
            LET cases == StepGet(step, "cases", <<>>)
                m == MatchCase(cases, st.context)
            IN RunAlone(steps, i + 1,
                IF m = 0 THEN st
                ELSE RunAlone(StepGet(cases[m], "actions", <<>>), 1, st))
      [] type = "wait_for_event" ->
            [st EXCEPT !.results = Append(@, [step |-> id, status |-> "paused",
                                              reason |-> "wait_for_event"])]
      [] OTHER -> RunAlone(steps, i + 1, st)

\* what execute_flow(name, inp) returns when it runs alone
OutcomeAlone(name, inp, answers) ==
    IF name \notin DOMAIN flows
    THEN [error |-> <<"Flow ", name, " not found">>, status |-> "failed"]
    ELSE LET st == RunAlone(StepGet(flows[name], "steps", <<>>), 1,
                            [context |-> inp.m, results |-> <<>>, answers |-> answers,
                             raised |-> FALSE, exc |-> ""])
         IN [flow |-> name,
             status |-> IF st.raised THEN "failed" ELSE "completed",
             results |-> IF st.raised THEN Append(st.results, [error |-> st.exc])
                         ELSE st.results,
             final_context |-> st.context]

\* C20: under every interleaving of two calls on the same runner, each call
\* returns the outcome (status, results, final_context) that the same call
\* returns when it runs alone and the skills service answers the same
C20_CallsDoNotInterfere ==
    \A call \in {Locals, parked} :
        call.pc = "returned"
            => call.outcome = OutcomeAlone(call.flow_name, call.input_data,
                                           SkillAnswers(call.calls))

\* one call has returned two records or more while the other, on another
\* input, has made a record and is still running
C20_Witness ==
    /\ pc = "returned" /\ InCall
    /\ Len(outcome.results) >= 2
    /\ parked.pc = "running"
    /\ Len(parked.results) >= 1
    /\ parked.input_data # input_data
    /\ parked.context # context


(***************************************************************************)
(* The outcome of a run                                                    *)
(***************************************************************************)
\* an error left the step-sequence procedure during the run
ErrorEscaped == \E i \in DOMAIN trace : RaisedAt(trace[i])

\* C21: a run of a registered flow returns the status completed or failed,
\* and completed whenever no error escaped the step sequence (failed only
\* when one did)
C21_StatusCompletedOrFailed ==
    (pc = "returned" /\ InCall) =>
        /\ outcome.status \in {"completed", "failed"}
        /\ ~ErrorEscaped => outcome.status = "completed"
        /\ ErrorEscaped => outcome.status = "failed"

\* a run whose steps failed, were skipped and paused, none raising, returned
\* completed
C21_Witness ==
    /\ pc = "returned" /\ InCall
    /\ outcome.status = "completed"
    /\ ~ErrorEscaped
    /\ \E a, b \in DOMAIN results :
        /\ results[a].status = "failed"
        /\ results[b].status = "paused"


(***************************************************************************)
(* Termination.  execute_flow runs on the calling thread: once called, its *)
(* next step is taken, every skill invocation returning (invoke_skill      *)
(* answers with a value or None, its HTTP call having a timeout).          *)
(***************************************************************************)
\* the steps the termination runs are built from: one of every type, a raising
\* one, a switch with a pause in its else case, and a switch nested in a
\* switch case
LiveSteps ==
    {SkillNotify, SkillBadInput, ScriptApprove, WaitApproval, OtherType}
        \cup {s \in SwitchSteps : s.id \in {"sw2", "sw6"}}

LiveFlowDefs ==
    {[name |-> "TestFlow", steps |-> s] :
        s \in UNION {[1..n -> LiveSteps] : n \in 0..MaxSteps}}

InitLive ==
    /\ flows \in {[n \in {"TestFlow"} |-> f] : f \in LiveFlowDefs}
    /\ initialized = FALSE
    /\ pc = "idle"
    /\ flow_name = ""
    /\ input_data = PyNone
    /\ context = <<>>
    /\ results = <<>>
    /\ stack = <<>>
    /\ exc = ""
    /\ outcome = <<>>
    /\ trace = <<>>
    /\ calls = <<>>
    /\ args = <<>>
    /\ ret = <<>>
    /\ parked = <<>>

\* _execute_switch_step seen from the scheduler: the switch is dispatched and
\* goes on into one of its cases or past them all.  Which one is SwitchStep's
\* to say; a step of Next that is a SwitchDispatch step is a SwitchStep step,
\* and both are enabled by the same states.
SwitchDispatch ==
    /\ Dispatching("switch")
    /\ LET cases == StepGet(Cur, "cases", <<>>)
       IN \E m \in 0..Len(cases) :
            /\ trace' = Append(trace, [path |-> CurPath, type |-> "switch", id |-> CurId,
                                       matched |-> m,
                                       evaluated |-> EvaluatedCases(cases, m)])
            /\ stack' = IF m = 0 THEN AfterStep(stack)
                        ELSE Unwind(Append(Advance(stack),
                                  Frame(StepGet(cases[m], "actions", <<>>),
                                        CurPath \o <<m>>)))
    /\ UNCHANGED <<elsewhere, flows, initialized, pc, flow_name, input_data, context,
                   results, exc, outcome, calls>>

\* the calling thread takes the next step of the call it is in
RunStep ==
    \/ SkillStep
    \/ ScriptStep
    \/ SwitchDispatch
    \/ WaitStep
    \/ OtherStep
    \/ FlowCompleted
    \/ FlowFailed

SpecLive == InitLive /\ [][Next]_vars /\ WF_vars(RunStep)

\* C22: a run of a registered flow, nested switches included, once started
\* comes to its end and returns to the caller (completed, failed, or halted
\* at a pause)
C22_RunTerminates ==
    (pc \in {"running", "raising"}) ~> (pc = "returned" /\ "status" \in DOMAIN outcome)

\* a run through a switch nested in a switch case has returned
C22_Witness ==
    /\ pc = "returned" /\ InCall
    /\ \E i \in DOMAIN trace : Len(trace[i].path) = 5
    /\ \E i \in DOMAIN results : IsPaused(results[i])


(***************************************************************************)
(* C23: one result record per executed step                                *)
(***************************************************************************)
\* the steps the call executed so far, in the order it dispatched them: the
\* top-level steps and the actions of the matched cases, switches included
ExecutedSteps == trace

\* C23: after a run in which no step raised and that executed n steps (the
\* top-level steps and the steps of matched switch cases, whatever their
\* type), the result list holds n records, the n-th being a step record with
\* the id of the n-th executed step
C23_OneRecordPerStep ==
    (pc = "returned" /\ InCall /\ ~ErrorEscaped) =>
        /\ Len(results) = Len(ExecutedSteps)
        /\ \A n \in DOMAIN results :
            /\ IsStepRecord(results[n])
            /\ n <= Len(ExecutedSteps) => results[n].step = ExecutedSteps[n].id


(***************************************************************************)
(* C24: the status endpoints of the service and get_flow_status            *)
(*                                                                         *)
(* args holds the configuration of the service, ret the answers it gave.   *)
(***************************************************************************)
\* the requests the service answers in one run
MaxRequests == 2

\* the attributes of the global flow_runner: the methods class FlowRunner
\* defines and the fields __init__ sets
FlowRunnerAttributes ==
    {"__init__", "_load_flows", "execute_flow", "_execute_steps",
     "_execute_skill_step", "_execute_script_step", "_execute_switch_step",
     "_resolve_variables", "_evaluate_condition", "_script_validate_invoice",
     "_script_auto_approve", "flows", "script_handlers"}

\* flow_runner.<name>: an attribute the object has not raises AttributeError
HasAttribute(name) == name \in FlowRunnerAttributes

FlowIds == {"InvoiceProcessingFlow", "TestFlow", "run-1", ""}

ErrorBody(error, message) == [error |-> error, message |-> message]

\* the body of both endpoints from `status = flow_runner.get_flow_status(..)`
\* on, inside their `try ... except Exception`
StatusAnswer(flow_id) ==
    IF HasAttribute("get_flow_status")
    THEN [code |-> 200, body |-> [status_of |-> flow_id]]
    ELSE [code |-> 500, body |-> ErrorBody("Internal error", "Failed to get flow status")]

\* require_auth: a request without a valid user is answered with 401
Unauthenticated == [code |-> 401,
                    body |-> ErrorBody("Authentication required", "Missing or invalid token")]

InitService ==
    /\ EngineAtRest
    /\ pc = "idle"
    /\ args \in {[ENABLE_ORCHESTRATE |-> b] : b \in BOOLEAN}
    /\ ret = <<>>

\* what the service keeps of a request it answered
Answered(route, flow_id, authenticated, answer) ==
    [route |-> route, flow_id |-> flow_id, authenticated |-> authenticated,
     answer |-> answer]

\* GET /flows/<flow_id>
GetFlowStatusEndpoint ==
    /\ Len(ret) < MaxRequests
    /\ \E flow_id \in FlowIds, authenticated \in BOOLEAN :
        ret' = Append(ret, Answered("/flows/<flow_id>", flow_id, authenticated,
                   IF ~authenticated THEN Unauthenticated
                   ELSE IF ~args.ENABLE_ORCHESTRATE
                        THEN [code |-> 404,
                              body |-> ErrorBody("Not enabled",
                                                 "Orchestrate integration is disabled")]
                        ELSE StatusAnswer(flow_id)))
    /\ UNCHANGED <<engine, pc, args>>

\* GET /orchestrate/flows/<flow_id>/status
GetFlowStatus ==
    /\ Len(ret) < MaxRequests
    /\ \E flow_id \in FlowIds, authenticated \in BOOLEAN :
        ret' = Append(ret, Answered("/orchestrate/flows/<flow_id>/status", flow_id,
                   authenticated,
                   IF ~authenticated THEN Unauthenticated ELSE StatusAnswer(flow_id)))
    /\ UNCHANGED <<engine, pc, args>>

NextService == GetFlowStatusEndpoint \/ GetFlowStatus

SpecService == InitService /\ [][NextService]_vars

\* the request reached the call of flow_runner.get_flow_status
AskedTheRunner(r) ==
    /\ r.authenticated
    /\ r.route = "/flows/<flow_id>" => args.ENABLE_ORCHESTRATE

\* C24: the flow runner has get_flow_status, and every status request that
\* reaches it, for any flow_id, is answered with the status map it returned
\* and not with an error
C24_StatusEndpointsAnswer ==
    \A i \in DOMAIN ret :
        AskedTheRunner(ret[i]) =>
            /\ HasAttribute("get_flow_status")
            /\ ret[i].answer.code = 200
            /\ "error" \notin DOMAIN ret[i].answer.body


(***************************************************************************)
(* C25: the mock response of a client that is not connected                *)
(***************************************************************************)
\* the response of lines 64-69 to a call with this name and input
MockResponse(skill_name, given) ==
    PyMap(<<Item("skill", skill_name),
            Item("status", PyStr(<<"mock_success">>)),
            Item("result", given)>>)

\* the loop is at a skill step whose input is a JSON object (or absent), and
\* the step is taken
SkillStepTaken ==
    /\ Dispatching("skill")
    /\ IsMap(StepGet(Cur, "input", PyMap(<<>>)))
    /\ trace' # trace

\* C25: while the skills client is not connected, every skill step invokes
\* the skill and gets the mock response, which is no empty map and whose
\* result field is the input the call was given; the step records success
\* with it and writes it to the context under its output key
C25_MockWhenNotConnected ==
    [][(SkillStepTaken /\ ~initialized) =>
        /\ Len(calls') = Len(calls) + 1
        /\ LET call == Last(calls')
               response == MockResponse(StepGet(Cur, "skill", PyNone), call.input)
           IN /\ call.result = response
              /\ response.m # <<>>
              /\ results' = Append(results, [step |-> CurId, status |-> "success",
                                             output |-> response])
              /\ Has(context', OutputVar(Cur))
              /\ Lookup(context', OutputVar(Cur)) = response
              /\ \A k \in Keys(context) \ {OutputVar(Cur)} :
                    Has(context', k) /\ Lookup(context', k) = Lookup(context, k)]_vars

\* a run on a client that is not connected has returned: its risk_score step
\* recorded success with the mock response, whose result holds the resolved
\* input, and the response is in the context under the step's output key
C25_Witness ==
    /\ pc = "returned" /\ InCall /\ ~initialized
    /\ \E i \in DOMAIN results :
        /\ results[i] = [step |-> "s1", status |-> "success",
                         output |-> MockResponse(PyStr(<<"risk_score">>),
                                      PyMap(<<Item("vendor", PyStr(<<"v: ", "Acme">>)),
                                              Item("limit", PyInt(100))>>))]
        /\ Has(context, "risk") /\ Lookup(context, "risk") = results[i].output


(***************************************************************************)
(* C26: invoke_skill under its retry decorator                             *)
(*                                                                         *)
(* args holds a call of the decorated invoke_skill with the answers the    *)
(* remote end would give to its successive HTTP posts, ret what the call   *)
(* came to and the posts it made.                                          *)
(***************************************************************************)
\* @retry(max_attempts=3, delay=1.0)
max_attempts == 3

Returns(v, posts) == [k |-> "return", v |-> v, posts |-> posts]
Raises(e, posts) == [k |-> "raise", exc |-> e, posts |-> posts]

\* the undecorated invoke_skill, lines 61-91, as the decorator calls it: what
\* it comes to, and the posts made when it ends, posts having been made before
invoke_skill_body(connected, skill_name, skill_input, answer, posts) ==
    IF ~connected
    THEN Returns(PyMap(<<Item("skill", skill_name),
                         Item("status", PyStr(<<"mock_success">>)),
                         Item("result", skill_input)>>), posts)
    ELSE IF "error" \in DOMAIN answer
         THEN \* session.post raised: except Exception, lines 89-91
              Returns(PyNone, posts + 1)
         ELSE IF answer.status_code = 200
              THEN Returns(answer.json, posts + 1)
              ELSE Returns(PyNone, posts + 1)

\* the loop of retry's wrapper, lines 65-78
RECURSIVE retry_wrapper(_, _, _, _, _, _)
retry_wrapper(attempt, connected, skill_name, skill_input, answers, posts) ==
    IF attempt < max_attempts
    THEN LET r == invoke_skill_body(connected, skill_name, skill_input,
                                    answers[posts + 1], posts)
         IN IF r.k = "return" THEN r
            ELSE IF attempt + 1 >= max_attempts THEN r
                 ELSE retry_wrapper(attempt + 1, connected, skill_name, skill_input,
                                    answers, r.posts)
    ELSE Raises("failed after 3 attempts", posts)

\* orchestrate_skills.invoke_skill(skill_name, input_data)
decorated_invoke_skill(connected, skill_name, skill_input, answers) ==
    retry_wrapper(0, connected, skill_name, skill_input, answers, 0)

SkillCalls ==
    [connected : BOOLEAN,
     skill_name : {PyStr(<<"notify">>)},
     skill_input : {PyMap(<<>>), PyMap(<<Item("limit", PyInt(100))>>)},
     answers : [1..max_attempts -> HttpAnswers]]

InitSkills ==
    /\ EngineAtRest
    /\ pc = "idle"
    /\ args \in SkillCalls
    /\ ret = <<>>

InvokeSkill ==
    /\ ret = <<>>
    /\ ret' = decorated_invoke_skill(args.connected, args.skill_name, args.skill_input,
                                     args.answers)
    /\ UNCHANGED <<engine, pc, args>>

NextSkills == InvokeSkill

SpecSkills == InitSkills /\ [][NextSkills]_vars

\* the remote call with this answer failed: a transport error or a status
\* other than 200
CallFails(answer) == "error" \in DOMAIN answer \/ answer.status_code # 200

\* the attempts the documented retry makes on these answers: up to the first
\* that succeeds, three when none does
DocumentedAttempts(answers) ==
    IF \E n \in DOMAIN answers : ~CallFails(answers[n])
    THEN CHOOSE n \in DOMAIN answers :
            /\ ~CallFails(answers[n])
            /\ \A j \in 1..(n - 1) : CallFails(answers[j])
    ELSE max_attempts

\* C26: a connected invoke_skill never raises; a remote call that fails is
\* made again, up to 3 attempts in all, and None is returned only when all
\* three failed; a call that succeeds at once is made exactly once
C26_RetryUpToThreeAttempts ==
    (ret # <<>> /\ args.connected) =>
        /\ ret.k = "return"
        /\ ret.posts = DocumentedAttempts(args.answers)
        /\ ret.v = IF \A n \in DOMAIN args.answers : CallFails(args.answers[n])
                   THEN PyNone
                   ELSE args.answers[DocumentedAttempts(args.answers)].json


(***************************************************************************)
(* C27: what execute_flow was given is left as it was                      *)
(*                                                                         *)
(* Python dicts are objects, and a map held in a map is held by reference: *)
(* here args is the heap of a call (the objects by address, a value of a   *)
(* dict being a scalar or [ref |-> address]) with the addresses the call's *)
(* names are bound to, and ret is what the call returned.                  *)
(***************************************************************************)
\* the writes to the context the steps of one run make
MaxWrites == 2

Ref(a) == [ref |-> a]

\* the addresses of the caller's input map, of the map it holds, of
\* self.flows and of the flow definition
InputAt == 1
NestedAt == 2
FlowsAt == 3
FlowAt == 4
Given == {InputAt, NestedAt, FlowsAt, FlowAt}

\* the input maps of a caller: empty, with scalars, with a map under a key a
\* step also writes to
GivenInputs ==
    {<<>>,
     <<Item("note", "urgent")>>,
     <<Item("invoice", Ref(NestedAt))>>,
     <<Item("risk", Ref(NestedAt)), Item("validation", "pending")>>}

GivenHeaps ==
    {[a \in Given |->
        CASE a = InputAt -> inp
          [] a = NestedAt -> <<Item("total", 100), Item("score", 1)>>
          [] a = FlowsAt -> <<Item("TestFlow", Ref(FlowAt))>>
          [] a = FlowAt -> <<Item("name", "TestFlow"), Item("steps", "steps")>>] :
     inp \in GivenInputs}

\* the keys the steps write under (step.get("output", step.get("id"))), and
\* what they bind there: a handler's or a skill's result, a new dict
OutputKeys == {"risk", "validation", "invoice", "s2"}
ResultDicts == {<<Item("ok", TRUE)>>, <<Item("status", "mock_success"), Item("result", "input")>>}

\* a new object
Allocate(heap, obj) ==
    [a \in DOMAIN heap \cup {Cardinality(DOMAIN heap) + 1} |->
        IF a \in DOMAIN heap THEN heap[a] ELSE obj]
NewAt(heap) == Cardinality(DOMAIN heap) + 1

\* (mutant) context = input_data: the context is the caller's map itself
ContextAliased(heap, input_at) == [heap |-> heap, context |-> input_at]

\* context = input_data.copy(), line 50: a new dict with the items of the
\* input, the maps it holds shared with it
ContextCopied(heap, input_at) ==
    [heap |-> Allocate(heap, heap[input_at]), context |-> NewAt(heap)]

InitAlias ==
    /\ EngineAtRest
    /\ pc = "idle"
    /\ args \in {[heap |-> h, given |-> h, input_data |-> InputAt, context |-> 0,
                  writes |-> 0] : h \in GivenHeaps}
    /\ ret = <<>>

\* execute_flow up to line 53, on the registered flow
CopyInput ==
    /\ pc = "idle"
    /\ Has(args.heap[FlowsAt], "TestFlow")
    /\ LET c == ContextCopied(args.heap, args.input_data)
       IN args' = [args EXCEPT !.heap = c.heap, !.context = c.context]
    /\ pc' = "running"
    /\ UNCHANGED <<engine, ret>>

\* context[output_var] = result, lines 108 and 127, the only writes of a run
\* to a dict it did not make itself
WriteOutput ==
    /\ pc = "running"
    /\ args.writes < MaxWrites
    /\ \E output_var \in OutputKeys, result \in ResultDicts :
        LET heap == Allocate(args.heap, result)
        IN args' = [args EXCEPT
                        !.heap = [heap EXCEPT ![args.context] =
                                    Put(heap[args.context], output_var,
                                        Ref(NewAt(args.heap)))],
                        !.writes = @ + 1]
    /\ UNCHANGED <<engine, pc, ret>>

\* the return of lines 63-68: final_context is the context itself
ReturnOutcome ==
    /\ pc = "running"
    /\ ret' = [status |-> "completed", final_context |-> Ref(args.context)]
    /\ pc' = "returned"
    /\ UNCHANGED <<engine, args>>

NextAlias == CopyInput \/ WriteOutput \/ ReturnOutcome

SpecAlias == InitAlias /\ [][NextAlias]_vars

\* C27: during and after a run the caller's input map and the maps it holds
\* have the keys and values they had at the call, also when a step wrote
\* under a key of the input, and the flow registry and the flow definitions
\* are as they were
C27_GivenLeftUnchanged ==
    \A a \in Given : args.heap[a] = args.given[a]

\* a run has returned that wrote under a key of the input: the context holds
\* the step's result there, the input what it held
C27_Witness ==
    /\ pc = "returned"
    /\ args.given[InputAt] = <<Item("invoice", Ref(NestedAt))>>
    /\ args.heap[InputAt] = <<Item("invoice", Ref(NestedAt))>>
    /\ Lookup(args.heap[ret.final_context.ref], "invoice") # Ref(NestedAt)


(***************************************************************************)
(* C28: a run halted by a top-level wait_for_event step                    *)
(***************************************************************************)
\* the run executed a wait_for_event step of the top-level sequence
HaltedAtTopLevel ==
    \E i \in DOMAIN trace : IsWait(trace[i]) /\ Len(trace[i].path) = 1

\* the keys written by the steps executed before the n-th
WrittenBefore(n) == {OutputVar(StepAt(trace[i].path)) : i \in 1..(n - 1)}

\* C28: a run halted by a top-level wait_for_event step returns with status
\* completed and without the failure record of a raise (every record is the
\* record of a step); the wait is the last step it
\* executed, its paused record the last record, and final_context is the
\* context as the steps before the wait left it
C28_TopLevelPauseCompletes ==
    (pc = "returned" /\ InCall /\ HaltedAtTopLevel) =>
        /\ outcome.status = "completed"
        /\ \A n \in DOMAIN results : IsStepRecord(results[n])
        /\ IsWait(Last(trace))
        /\ Last(results) = PausedRecord(Last(trace).id)
        /\ outcome.results = results
        /\ outcome.final_context = context
        /\ Keys(context) \subseteq Keys(input_data.m) \cup WrittenBefore(Len(trace))
        /\ \A k \in Keys(input_data.m) \ WrittenBefore(Len(trace)) :
                Lookup(context, k) = Lookup(input_data.m, k)

\* a run of a flow whose second step is a wait, after a script step that
\* wrote to the context, has returned; and one whose first step is a wait and
\* whose second is a skill step shows in another behaviour
C28_Witness ==
    /\ pc = "returned" /\ InCall
    /\ Len(TopList) = 2
    /\ TopList[2] = WaitApproval
    /\ TopList[1] = ScriptValidate
    /\ Len(trace) = 2
    /\ Has(outcome.final_context, "validation")
    /\ ~Has(input_data.m, "validation")


(***************************************************************************)
(* C29: resolution and the order of the context's keys                     *)
(***************************************************************************)
\* the same key/value pairs, inserted in the opposite order
Reversed(d) == [i \in DOMAIN d |-> d[Len(d) + 1 - i]]

\* C29: the resolved map does not depend on the order in which the context
\* holds its keys: resolving the template against the same pairs inserted in
\* the opposite order gives the map the call returned
C29_KeyOrderIndependent ==
    Resolved => ret.value = resolve_variables(args.template, Reversed(args.context))


(***************************************************************************)
(* C30: CircuitBreaker                                                     *)
(*                                                                         *)
(* args holds the arguments of the constructor, ret the breaker object,    *)
(* the clock (time.time()) and what the last operation on it did.          *)
(***************************************************************************)
MaxThreshold == 3
MaxTimeout == 2
\* the clock runs to here, and a breaker counts failures up to here
MaxClock == 4
MaxFailureCount == 5

\* last_failure_time = None, a value no clock shows
NoTime == -1

\* what a wrapped function does when called: it returns, raises an
\* Exception, or raises what `except Exception` does not catch
FuncOutcomes == {"returns", "raises", "exits"}

\* (mutant) the breaker opens one failure late
ThresholdPassed(failure_count, failure_threshold) == failure_count > failure_threshold

\* `self.failure_count >= self.failure_threshold`, line 44
ThresholdReached(failure_count, failure_threshold) == failure_count >= failure_threshold

\* `self.last_failure_time and (time.time() - self.last_failure_time) > self.timeout`
TimeoutPassed(last_failure_time, now, timeout) ==
    /\ last_failure_time # NoTime
    /\ last_failure_time # 0
    /\ now - last_failure_time > timeout

NoOperation == [op |-> "none"]

\* __init__
InitBreaker ==
    /\ EngineAtRest
    /\ pc = "idle"
    /\ args \in [failure_threshold : 1..MaxThreshold, timeout : 1..MaxTimeout]
    /\ \E t \in 1..MaxClock :
        ret = [failure_count |-> 0, last_failure_time |-> NoTime, state |-> "closed",
               now |-> t, last |-> NoOperation]

\* what the operation found: the breaker and the clock before it
Before == [state |-> ret.state, failure_count |-> ret.failure_count,
           last_failure_time |-> ret.last_failure_time, now |-> ret.now]

\* call, lines 22-48: func takes until `done` when it is invoked
BreakerCall ==
    \E func \in FuncOutcomes, done \in ret.now..MaxClock :
        LET refused == ret.state = "open"
                        /\ ~TimeoutPassed(ret.last_failure_time, ret.now, args.timeout)
            entered == IF ret.state = "open" THEN "half_open" ELSE ret.state
        IN /\ ret.failure_count < MaxFailureCount
           /\ IF refused
              THEN \* line 30: raised before the try
                   ret' = [ret EXCEPT !.last = [op |-> "call", before |-> Before,
                                                invoked |-> FALSE, result |-> "raised"]]
              ELSE CASE func = "returns" ->
                        ret' = [ret EXCEPT
                                  !.state = IF entered = "half_open" THEN "closed"
                                            ELSE entered,
                                  !.failure_count = 0,
                                  !.now = done,
                                  !.last = [op |-> "call", before |-> Before,
                                            invoked |-> TRUE, result |-> "returned"]]
                     [] func = "raises" ->
                        ret' = [ret EXCEPT
                                  !.failure_count = @ + 1,
                                  !.last_failure_time = done,
                                  !.state = IF ThresholdReached(ret.failure_count + 1,
                                                                args.failure_threshold)
                                            THEN "open" ELSE entered,
                                  !.now = done,
                                  !.last = [op |-> "call", before |-> Before,
                                            invoked |-> TRUE, result |-> "raised"]]
                     [] func = "exits" ->
                        ret' = [ret EXCEPT
                                  !.state = entered,
                                  !.now = done,
                                  !.last = [op |-> "call", before |-> Before,
                                            invoked |-> TRUE, result |-> "raised"]]
           /\ UNCHANGED <<engine, pc, args>>

\* reset, lines 50-54
BreakerReset ==
    /\ ret' = [ret EXCEPT !.failure_count = 0, !.last_failure_time = NoTime,
                          !.state = "closed",
                          !.last = [op |-> "reset", before |-> Before]]
    /\ UNCHANGED <<engine, pc, args>>

\* time passes between two operations
ClockTick ==
    /\ ret.now < MaxClock
    /\ ret' = [ret EXCEPT !.now = @ + 1]
    /\ UNCHANGED <<engine, pc, args>>

NextBreaker == BreakerCall \/ BreakerReset \/ ClockTick

SpecBreaker == InitBreaker /\ [][NextBreaker]_vars

\* the last operation was a call that found the breaker open, the timeout not
\* elapsed since the last failure
CalledWhileOpen ==
    /\ ret.last.op = "call"
    /\ ret.last.before.state = "open"
    /\ ret.last.before.last_failure_time # NoTime
    /\ ret.last.before.now - ret.last.before.last_failure_time <= args.timeout

\* C30: after any sequence of calls and resets on a breaker whose threshold
\* is at least 1, the state is open or half_open only with failure_count >=
\* failure_threshold, closed only with failure_count < failure_threshold,
\* and a call that finds the breaker open before the timeout has elapsed
\* raises without invoking the wrapped function
C30_BreakerStates ==
    /\ ret.state \in {"closed", "open", "half_open"}
    /\ ret.state \in {"open", "half_open"} => ret.failure_count >= args.failure_threshold
    /\ ret.state = "closed" => ret.failure_count < args.failure_threshold
    /\ CalledWhileOpen =>
        /\ ~ret.last.invoked
        /\ ret.last.result = "raised"
        /\ ret.state = "open"
        /\ ret.failure_count = ret.last.before.failure_count

\* a breaker that opened, was tried again after the timeout and failed again,
\* has now refused a call
C30_Witness ==
    /\ CalledWhileOpen
    /\ ret.failure_count > args.failure_threshold
    /\ args.failure_threshold > 1

====
